---- MODULE Spec2Model ----
(***************************************************************************)
(* The expense-classification service of ml-service: MLService             *)
(* (services/ml_service.py) with its model file, its construction, its     *)
(* training call and its categorize call, as a state machine.              *)
(*                                                                         *)
(* Python values are records [type, s, n]; a str is a sequence of          *)
(* one-character strings.  Objects (vectorizers, classifiers) live in a    *)
(* heap indexed by object id, because the service's attributes hold        *)
(* references and fit() mutates whatever object the attribute refers to.   *)
(* Confidences and probabilities are integer percents (0.7 is 70).         *)
(***************************************************************************)
EXTENDS Integers, Sequences, FiniteSets, TLC

(***************************************************************************)
(* Bounds of the model.                                                    *)
(***************************************************************************)
\* objects (vectorizer/classifier pairs) that may be created in one run
MaxObjects == 2
\* clock ticks a run may see; the clock has TicksPerSecond ticks per second
MaxClock == 3
TicksPerSecond == 2
\* training sets have between MIN_TRAINING_SAMPLES - 1 and
\* MIN_TRAINING_SAMPLES + MaxExtra items, at most MaxInvalid of them malformed
MaxExtra == 0
MaxInvalid == 1
\* items of one bulk request
MaxBatch == 2
\* the largest max_text_length an ExpenseClassifier is configured with,
\* besides the default
MaxConfigLength == 3
\* classes of a probability vector
MaxClasses == 4
\* processes started after the first one
MaxRestarts == 1
\* the largest Config.MIN_TRAINING_SAMPLES create_sample_training_data is run with
MaxMinimum == 100

(***************************************************************************)
(* Program constants (config.py).                                          *)
(***************************************************************************)
MIN_TRAINING_SAMPLES == 100
\* the least number of valid examples ExpenseClassifier.train accepts
ClassifierMinSamples == 10
MAX_TEXT_LENGTH == 500
MODEL_CONFIDENCE_THRESHOLD == 60

DEFAULT_CATEGORIES ==
    << "Food & Dining", "Transportation", "Shopping", "Entertainment",
       "Bills & Utilities", "Healthcare", "Travel", "Education",
       "Personal Care", "Gifts & Donations", "Business", "Other" >>

(***************************************************************************)
(* Python values.                                                          *)
(***************************************************************************)
PyNone == [type |-> "NoneType", s |-> <<>>, n |-> 0]
PyStr(chars) == [type |-> "str", s |-> chars, n |-> 0]
PyInt(k) == [type |-> "int", s |-> <<>>, n |-> k]

\* bool(v): None, "" and 0 are falsy
Truthy(v) ==
    \/ v.type = "str" /\ v.s # <<>>
    \/ v.type = "int" /\ v.n # 0
    \/ v.type = "dict" /\ DOMAIN v.d # {}
    \/ v.type = "list" /\ v.items # <<>>

Lowercase ==
    << "a","b","c","d","e","f","g","h","i","j","k","l","m",
       "n","o","p","q","r","s","t","u","v","w","x","y","z" >>
Uppercase ==
    << "A","B","C","D","E","F","G","H","I","J","K","L","M",
       "N","O","P","Q","R","S","T","U","V","W","X","Y","Z" >>
Digits == << "0","1","2","3","4","5","6","7","8","9" >>

Range(f) == { f[i] : i \in DOMAIN f }

IsSpace(c) == c \in {" ", "\t", "\n"}
IsAlnum(c) == c \in Range(Lowercase) \cup Range(Uppercase) \cup Range(Digits)

LowerChar(c) ==
    IF c \in Range(Uppercase)
    THEN Lowercase[CHOOSE i \in DOMAIN Uppercase : Uppercase[i] = c]
    ELSE c

\* str.lower()
Lower(chars) == [i \in DOMAIN chars |-> LowerChar(chars[i])]

\* str(int) for a non-negative int
RECURSIVE IntToStr(_)
IntToStr(k) ==
    IF k < 10 THEN << Digits[k + 1] >>
    ELSE IntToStr(k \div 10) \o << Digits[(k % 10) + 1] >>

\* str(v)
Str(v) ==
    CASE v.type = "str" -> v.s
      [] v.type = "int" -> IntToStr(v.n)
      [] OTHER -> << "N","o","n","e" >>

\* re.sub(r'[^a-zA-Z0-9\s]', ' ', text)
SubSpecial(chars) ==
    [i \in DOMAIN chars |->
        IF IsAlnum(chars[i]) \/ IsSpace(chars[i]) THEN chars[i] ELSE " "]

\* text.split(): the maximal runs of non-whitespace characters, in order
WordStarts(chars) ==
    { i \in DOMAIN chars :
        ~IsSpace(chars[i]) /\ (i = 1 \/ IsSpace(chars[i - 1])) }

WordEnd(chars, start) ==
    CHOOSE e \in start..Len(chars) :
        /\ \A j \in start..e : ~IsSpace(chars[j])
        /\ e = Len(chars) \/ IsSpace(chars[e + 1])

Split(chars) ==
    LET starts == WordStarts(chars)
        nth(k) == CHOOSE a \in starts : Cardinality({ b \in starts : b < a }) = k - 1
    IN  [k \in 1..Cardinality(starts) |->
            SubSeq(chars, nth(k), WordEnd(chars, nth(k)))]

\* ' '.join(words)
RECURSIVE Join(_)
Join(words) ==
    IF words = <<>> THEN <<>>
    ELSE IF Len(words) = 1 THEN words[1]
    ELSE words[1] \o << " " >> \o Join(Tail(words))

\* text[:k]
Prefix(chars, k) == SubSeq(chars, 1, IF Len(chars) < k THEN Len(chars) ELSE k)

\* preprocess_text with the configured maximum length as a parameter
PreprocessWith(text, maxLength) ==
    IF ~Truthy(text) THEN <<>>
    ELSE LET lowered   == Lower(Str(text))
             cleaned   == SubSpecial(lowered)
             collapsed == Join(Split(cleaned))
         IN  IF Len(collapsed) > maxLength
             THEN Prefix(collapsed, maxLength)
             ELSE collapsed

preprocess_text(text) == PreprocessWith(text, MAX_TEXT_LENGTH)

\* the merchant text appended once
combine_features_MerchantOnce(description, merchant) ==
    LET desc  == preprocess_text(description)
        merch == IF Truthy(merchant) THEN preprocess_text(merchant) ELSE <<>>
    IN  IF merch # <<>>
        THEN desc \o << " " >> \o merch
        ELSE desc

combine_features(description, merchant) ==
    LET desc  == preprocess_text(description)
        merch == IF Truthy(merchant) THEN preprocess_text(merchant) ELSE <<>>
    IN  IF merch # <<>>
        THEN desc \o << " " >> \o merch \o << " " >> \o merch
        ELSE desc

\* text.strip()
RECURSIVE LStrip(_)
LStrip(chars) ==
    IF chars # <<>> /\ IsSpace(Head(chars)) THEN LStrip(Tail(chars)) ELSE chars

RECURSIVE RStrip(_)
RStrip(chars) ==
    IF chars # <<>> /\ IsSpace(chars[Len(chars)])
    THEN RStrip(SubSeq(chars, 1, Len(chars) - 1))
    ELSE chars

Strip(chars) == LStrip(RStrip(chars))

(***************************************************************************)
(* The rule-based fallback classifier.                                     *)
(***************************************************************************)
FoodKeywords ==
    << <<"r","e","s","t","a","u","r","a","n","t">>,
       <<"f","o","o","d">>,
       <<"c","a","f","e">>,
       <<"c","o","f","f","e","e">>,
       <<"d","i","n","n","e","r">>,
       <<"l","u","n","c","h">>,
       <<"b","r","e","a","k","f","a","s","t">>,
       <<"p","i","z","z","a">>,
       <<"b","u","r","g","e","r">>,
       <<"s","u","s","h","i">>,
       <<"b","a","r">>,
       <<"p","u","b">>,
       <<"g","r","i","l","l">>,
       <<"d","i","n","e","r">>,
       <<"m","c","d","o","n","a","l","d","s">>,
       <<"s","u","b","w","a","y">>,
       <<"s","t","a","r","b","u","c","k","s">>,
       <<"k","f","c">>,
       <<"t","a","c","o">>,
       <<"d","o","m","i","n","o","s">> >>

TransportationKeywords ==
    << <<"g","a","s">>,
       <<"f","u","e","l">>,
       <<"g","a","s","o","l","i","n","e">>,
       <<"u","b","e","r">>,
       <<"l","y","f","t">>,
       <<"t","a","x","i">>,
       <<"b","u","s">>,
       <<"t","r","a","i","n">>,
       <<"p","a","r","k","i","n","g">>,
       <<"t","o","l","l">>,
       <<"c","a","r">>,
       <<"a","u","t","o">>,
       <<"s","h","e","l","l">>,
       <<"e","x","x","o","n">>,
       <<"b","p">>,
       <<"c","h","e","v","r","o","n">> >>

ShoppingKeywords ==
    << <<"a","m","a","z","o","n">>,
       <<"t","a","r","g","e","t">>,
       <<"w","a","l","m","a","r","t">>,
       <<"c","o","s","t","c","o">>,
       <<"s","h","o","p">>,
       <<"s","t","o","r","e">>,
       <<"r","e","t","a","i","l">>,
       <<"c","l","o","t","h","e","s">>,
       <<"c","l","o","t","h","i","n","g">>,
       <<"s","h","o","e","s">>,
       <<"m","a","l","l">>,
       <<"p","u","r","c","h","a","s","e">>,
       <<"e","b","a","y">>,
       <<"e","t","s","y">> >>

EntertainmentKeywords ==
    << <<"m","o","v","i","e">>,
       <<"c","i","n","e","m","a">>,
       <<"t","h","e","a","t","e","r">>,
       <<"n","e","t","f","l","i","x">>,
       <<"s","p","o","t","i","f","y">>,
       <<"g","a","m","e","s">>,
       <<"g","a","m","i","n","g">>,
       <<"c","o","n","c","e","r","t">>,
       <<"s","h","o","w">>,
       <<"e","v","e","n","t">>,
       <<"t","i","c","k","e","t">>,
       <<"e","n","t","e","r","t","a","i","n","m","e","n","t">> >>

BillsKeywords ==
    << <<"e","l","e","c","t","r","i","c">>,
       <<"e","l","e","c","t","r","i","c","i","t","y">>,
       <<"w","a","t","e","r">>,
       <<"g","a","s">>,
       <<"i","n","t","e","r","n","e","t">>,
       <<"p","h","o","n","e">>,
       <<"c","a","b","l","e">>,
       <<"u","t","i","l","i","t","y">>,
       <<"b","i","l","l">>,
       <<"p","a","y","m","e","n","t">>,
       <<"i","n","s","u","r","a","n","c","e">>,
       <<"r","e","n","t">> >>

HealthcareKeywords ==
    << <<"d","o","c","t","o","r">>,
       <<"h","o","s","p","i","t","a","l">>,
       <<"m","e","d","i","c","a","l">>,
       <<"p","h","a","r","m","a","c","y">>,
       <<"h","e","a","l","t","h">>,
       <<"d","e","n","t","a","l">>,
       <<"c","l","i","n","i","c">>,
       <<"m","e","d","i","c","i","n","e">>,
       <<"p","r","e","s","c","r","i","p","t","i","o","n">>,
       <<"c","v","s">>,
       <<"w","a","l","g","r","e","e","n","s">> >>

\* keyword in text
Contains(text, keyword) ==
    \E i \in 0..(Len(text) - Len(keyword)) :
        SubSeq(text, i + 1, i + Len(keyword)) = keyword

AnyKeyword(text, keywords) ==
    \E k \in DOMAIN keywords : Contains(text, keywords[k])

\* x.lower() without the `if x else ""` guard: None raises too
fallback_raises_NoGuard(description, merchant) ==
    description.type # "str" \/ merchant.type # "str"

\* x.lower() raises AttributeError when x is truthy and no str
fallback_raises(description, merchant) ==
    \/ Truthy(description) /\ description.type # "str"
    \/ Truthy(merchant) /\ merchant.type # "str"

FallbackResult(category, confidence) ==
    [category |-> category, confidence |-> confidence, suggestions |-> <<>>,
     via |-> "fallback"]

\* the fallback with the Bills & Utilities list tested before Transportation
fallback_categorization_BillsFirst(description, merchant) ==
    LET desc_lower  == IF Truthy(description) THEN Lower(description.s) ELSE <<>>
        merch_lower == IF Truthy(merchant) THEN Lower(merchant.s) ELSE <<>>
        text        == desc_lower \o << " " >> \o merch_lower
    IN  IF AnyKeyword(text, FoodKeywords)
            THEN FallbackResult("Food & Dining", 70)
        ELSE IF AnyKeyword(text, BillsKeywords)
            THEN FallbackResult("Bills & Utilities", 70)
        ELSE IF AnyKeyword(text, TransportationKeywords)
            THEN FallbackResult("Transportation", 70)
        ELSE IF AnyKeyword(text, ShoppingKeywords)
            THEN FallbackResult("Shopping", 70)
        ELSE IF AnyKeyword(text, EntertainmentKeywords)
            THEN FallbackResult("Entertainment", 70)
        ELSE IF AnyKeyword(text, HealthcareKeywords)
            THEN FallbackResult("Healthcare", 70)
        ELSE FallbackResult("Other", 30)

fallback_categorization(description, merchant) ==
    LET desc_lower  == IF Truthy(description) THEN Lower(description.s) ELSE <<>>
        merch_lower == IF Truthy(merchant) THEN Lower(merchant.s) ELSE <<>>
        text        == desc_lower \o << " " >> \o merch_lower
    IN  IF AnyKeyword(text, FoodKeywords)
            THEN FallbackResult("Food & Dining", 70)
        ELSE IF AnyKeyword(text, TransportationKeywords)
            THEN FallbackResult("Transportation", 70)
        ELSE IF AnyKeyword(text, ShoppingKeywords)
            THEN FallbackResult("Shopping", 70)
        ELSE IF AnyKeyword(text, EntertainmentKeywords)
            THEN FallbackResult("Entertainment", 70)
        ELSE IF AnyKeyword(text, BillsKeywords)
            THEN FallbackResult("Bills & Utilities", 70)
        ELSE IF AnyKeyword(text, HealthcareKeywords)
            THEN FallbackResult("Healthcare", 70)
        ELSE FallbackResult("Other", 30)

(***************************************************************************)
(* Objects, references and files.                                          *)
(***************************************************************************)
\* an attribute holds None or a reference to an object of the heap
NoneRef == [some |-> FALSE, id |-> 0]
Ref(id) == [some |-> TRUE, id |-> id]

\* object ids: every training call that passes its checks creates one
\* vectorizer and one classifier, both with the id of the call; id 0 is the
\* pair a model file written by an earlier process holds
ObjectIds == 0..MaxObjects

\* a TfidfVectorizer: unfitted, or fitted on the texts of training `by`
UnfittedVectorizer == [fitted |-> FALSE, by |-> 0]
FittedVectorizer(by) == [fitted |-> TRUE, by |-> by]

\* a MultinomialNB: unfitted, or fitted on features of vocabulary `vocab`
\* with the labels of a training, whose sorted distinct labels are classes_
UnfittedModel == [fitted |-> FALSE, vocab |-> 0, classes |-> <<>>]
FittedModel(vocab, classes) == [fitted |-> TRUE, vocab |-> vocab, classes |-> classes]

\* model_version: Config.MODEL_VERSION, or v<YYYYMMDD_HHMMSS> of a second
ConfigVersion == [tag |-> "1.0.0", sec |-> 0]
\* datetime.now().strftime('%Y%m%d_%H%M%S'): the clock cut to whole seconds
FormatVersion(now) == [tag |-> "v", sec |-> now \div TicksPerSecond]

\* label sets of training data (sorted, as classes_ holds them)
LabelsA == << "Food & Dining", "Transportation" >>
LabelsB == << "Groceries", "Rent", "Transportation" >>
LabelsSample ==
    << "Bills & Utilities", "Entertainment", "Food & Dining", "Healthcare",
       "Shopping", "Transportation" >>

CustomCategories == << "Groceries", "Rent", "Transportation", "Other" >>

\* the model file: missing, undeserialisable (corrupt, or the empty/partial
\* file an interrupted write leaves), or a pickled dict with some keys
NoFile == [state |-> "missing", keys |-> {}, model |-> UnfittedModel,
           vectorizer |-> UnfittedVectorizer, version |-> ConfigVersion]
CorruptFile == [NoFile EXCEPT !.state = "corrupt"]
PartialFile == [NoFile EXCEPT !.state = "partial"]
BundleFile(keys, m, v, ver) ==
    [state |-> "bundle", keys |-> keys, model |-> m, vectorizer |-> v,
     version |-> ver]

AllKeys == {"model", "vectorizer", "version", "categories", "trained_at",
            "confidence_threshold"}

\* the bundle an earlier process saved
OldBundle == BundleFile(AllKeys, FittedModel(0, LabelsA), FittedVectorizer(0),
                        FormatVersion(0))

InitialModelFiles ==
    { NoFile, CorruptFile, OldBundle,
      [OldBundle EXCEPT !.keys = AllKeys \ {"model"}],
      [OldBundle EXCEPT !.keys = AllKeys \ {"vectorizer"}],
      [OldBundle EXCEPT !.keys = AllKeys \ {"version"}] }

\* the categories file: missing, unreadable, JSON without the key, or a list
InitialCategoryFiles ==
    { [state |-> "missing", categories |-> <<>>],
      [state |-> "corrupt", categories |-> <<>>],
      [state |-> "nokey", categories |-> <<>>],
      [state |-> "json", categories |-> CustomCategories] }

\* a training set, by what the training code reads of it: its length, the
\* number of items lacking description or category, whether every label has
\* the members a stratified 80/20 split needs, whether any token survives
\* tokenisation and stop-word removal, and its sorted distinct labels
TrainingSet(n, invalid, stratifiable, vocabulary, labels) ==
    [n |-> n, invalid |-> invalid, stratifiable |-> stratifiable,
     vocabulary |-> vocabulary, labels |-> labels]

TrainingSets ==
    { TrainingSet(n, i, s, v, l) :
        n \in (MIN_TRAINING_SAMPLES - 1)..(MIN_TRAINING_SAMPLES + MaxExtra),
        i \in 0..MaxInvalid, s \in BOOLEAN, v \in BOOLEAN,
        l \in {LabelsA, LabelsB} }

\* create_sample_training_data: 30 items, extended by at most 20 of its
\* first items at a time until MIN_TRAINING_SAMPLES are reached
RECURSIVE SampleLength(_)
SampleLength(len) ==
    IF len < MIN_TRAINING_SAMPLES
    THEN SampleLength(len + (IF MIN_TRAINING_SAMPLES - len < 20
                             THEN MIN_TRAINING_SAMPLES - len ELSE 20))
    ELSE len

create_sample_training_data ==
    TrainingSet(SampleLength(30), 0, TRUE, TRUE, LabelsSample)

\* the training-data CSV at construction: missing, unreadable, or records
TrainingDataFiles ==
    { [state |-> "missing", data |-> create_sample_training_data],
      [state |-> "corrupt", data |-> create_sample_training_data] }
    \cup { [state |-> "csv", data |-> d] : d \in TrainingSets }
    \cup { [state |-> "csv", data |-> TrainingSet(0, 0, TRUE, FALSE, <<>>)] }

(***************************************************************************)
(* Inputs of categorize.                                                   *)
(***************************************************************************)
Descriptions ==
    { PyStr(<< "M","o","r","n","i","n","g"," ","C","o","f","f","e","e" >>),
      PyStr(<< "g","a","s"," ","b","i","l","l" >>),
      PyStr(<< "!","!" >>),
      PyNone,
      PyInt(123) }

Merchants ==
    { PyStr(<<>>), PyStr(<< "S","h","e","l","l" >>), PyInt(7) }

(***************************************************************************)
(* Python dicts and the items of requests and training data.               *)
(***************************************************************************)
\* a dict with str keys: d is the record of its entries
PyDict(d) == [type |-> "dict", s |-> <<>>, n |-> 0, d |-> d]
EmptyDict == PyDict(<<>>)
PyList(items) == [type |-> "list", s |-> <<>>, n |-> 0, items |-> items]

\* `key in x`: a dict has the key or not, a str is searched for it, a list
\* of dicts has no str member, and an int or None does not support the test
\* (TypeError)
InRaises(x) == x.type \in {"int", "NoneType"}
\* the characters of the keys the code tests
KeyChars(key) ==
    CASE key = "id" -> << "i","d" >>
      [] key = "description" -> << "d","e","s","c","r","i","p","t","i","o","n" >>
      [] key = "category" -> << "c","a","t","e","g","o","r","y" >>
      [] OTHER -> << "e","x","p","e","n","s","e","s" >>
In(key, x) ==
    CASE x.type = "dict" -> key \in DOMAIN x.d
      [] x.type = "str" -> Contains(x.s, KeyChars(key))
      [] OTHER -> FALSE

\* x.get(key, default) of a dict
Get(x, key, default) == IF key \in DOMAIN x.d THEN x.d[key] ELSE default

\* x[key] of a dict that has the key
Item(x, key) == x.d[key]

Repeat(x, k) == [i \in 1..k |-> x]

\* the sequences of at most k members of S
RECURSIVE SeqsUpTo(_, _)
SeqsUpTo(S, k) ==
    IF k = 0 THEN { <<>> }
    ELSE LET shorter == SeqsUpTo(S, k - 1)
         IN  shorter \cup { Append(q, x) : q \in { r \in shorter : Len(r) = k - 1 }, x \in S }

GasBill == PyStr(<< "g","a","s"," ","b","i","l","l" >>)
MorningCoffee == PyStr(<< "M","o","r","n","i","n","g"," ","C","o","f","f","e","e" >>)
Shell == PyStr(<< "S","h","e","l","l" >>)
Bangs == PyStr(<< "!","!" >>)

(***************************************************************************)
(* ExpenseClassifier (models/expense_classifier.py): the functions of its  *)
(* configuration and of its arguments.                                     *)
(***************************************************************************)
\* config: a dict that may set max_text_length
DefaultConfig == [keys |-> {}, max_text_length |-> 0]
ConfigOf(maxLength) == [keys |-> {"max_text_length"}, max_text_length |-> maxLength]

\* self.config.get('max_text_length', 500)
ConfigMaxTextLength(config) ==
    IF "max_text_length" \in config.keys THEN config.max_text_length ELSE 500

ExpenseClassifier_preprocess_text(config, text) ==
    IF ~Truthy(text) THEN <<>>
    ELSE LET lowered    == Lower(Str(text))
             cleaned    == SubSpecial(lowered)
             collapsed  == Join(Split(cleaned))
             max_length == ConfigMaxTextLength(config)
         IN  IF Len(collapsed) > max_length
             THEN Prefix(collapsed, max_length)
             ELSE collapsed

ExpenseClassifier_combine_features(config, description, merchant) ==
    LET desc  == ExpenseClassifier_preprocess_text(config, description)
        merch == IF Truthy(merchant)
                 THEN ExpenseClassifier_preprocess_text(config, merchant)
                 ELSE <<>>
    IN  IF merch # <<>>
        THEN desc \o << " " >> \o merch \o << " " >> \o merch
        ELSE desc

\* the feature string prepare_training_data builds for an item
FeatureText(config, item) ==
    ExpenseClassifier_combine_features(
        config, Item(item, "description"), Get(item, "merchant", PyStr(<<>>)))

\* prepare_training_data that keeps the items whose feature string is blank
prepare_training_data_KeepsBlank(config, data) ==
    LET kept == SelectSeq(data, LAMBDA item :
                    In("description", item) /\ In("category", item))
    IN  [features |-> [i \in DOMAIN kept |-> FeatureText(config, kept[i])],
         labels |-> [i \in DOMAIN kept |-> Item(kept[i], "category")]]

\* prepare_training_data: the feature strings and labels of the items that
\* have description and category and a feature string that is not blank, in
\* the order of the data
prepare_training_data(config, data) ==
    LET kept == SelectSeq(data, LAMBDA item :
                    /\ In("description", item) /\ In("category", item)
                    /\ Strip(FeatureText(config, item)) # <<>>)
    IN  [features |-> [i \in DOMAIN kept |-> FeatureText(config, kept[i])],
         labels |-> [i \in DOMAIN kept |-> Item(kept[i], "category")]]

\* every label of the model, in sorted order
SortedLabels ==
    << "Bills & Utilities", "Entertainment", "Food & Dining", "Groceries",
       "Healthcare", "Other", "Rent", "Shopping", "Transportation" >>

\* LabelEncoder.fit: classes_ is the sorted distinct labels
LabelEncoderClasses(labels) ==
    SelectSeq(SortedLabels, LAMBDA l : l \in Range(labels))

CountOf(labels, l) == Cardinality({ i \in DOMAIN labels : labels[i] = l })

\* train_test_split(test_size=0.2): ceil(0.2 n) test items, the rest train
TestSize(n) == (n + 4) \div 5
TrainSize(n) == n - TestSize(n)

\* train_test_split(..., stratify=labels) raises ValueError when a class has
\* fewer than 2 members or either part is smaller than the number of classes
Stratifiable(labels) ==
    LET classes == Range(labels)
    IN  /\ \A l \in classes : CountOf(labels, l) >= 2
        /\ TestSize(Len(labels)) >= Cardinality(classes)
        /\ TrainSize(Len(labels)) >= Cardinality(classes)

\* cross_val_score(cv=5) on the training part: StratifiedKFold raises when
\* every class has fewer than 5 members; a class of c items has floor(0.8 c)
\* or ceil(0.8 c) of them in the training part
CrossValMustRaise(labels) ==
    \A l \in Range(labels) : (4 * CountOf(labels, l) + 4) \div 5 < 5
CrossValMayRaise(labels) ==
    \A l \in Range(labels) : (4 * CountOf(labels, l)) \div 5 < 5

\* model_version of a classifier that was never trained or loaded
NoVersion == [tag |-> "None", sec |-> 0]

\* the keys of training_stats the model follows
NoStats == [n_samples |-> 0, n_categories |-> 0, accuracy |-> 0,
            incremental_samples |-> 0]

UnfittedEncoder == [fitted |-> FALSE, classes |-> <<>>]
FittedEncoder(classes) == [fitted |-> TRUE, classes |-> classes]

\* ExpenseClassifier.__init__ with _initialize_model
ExpenseClassifier_init(config) ==
    [model_type |-> "naive_bayes",
     config |-> config,
     model |-> UnfittedModel,
     vectorizer |-> UnfittedVectorizer,
     label_encoder |-> UnfittedEncoder,
     categories |-> <<>>,
     is_trained |-> FALSE,
     model_version |-> NoVersion,
     training_stats |-> NoStats,
     ntrain |-> 0]

NoTrainingData == [items |-> <<>>, vocabulary |-> FALSE]

NoClassifierResult ==
    [op |-> "none", path |-> "", status |-> "none", error |-> "",
     data |-> NoTrainingData, pre |-> ExpenseClassifier_init(DefaultConfig)]

\* training data of ExpenseClassifier.train: the items, and whether any term
\* of their texts survives the vectorizer's stop words, min_df and max_df
ValidItems(a, b) ==
    Repeat(PyDict([description |-> GasBill, merchant |-> Shell,
                   category |-> "Transportation"]), a)
    \o Repeat(PyDict([description |-> MorningCoffee,
                      category |-> "Food & Dining"]), b)

MalformedItems ==
    { PyDict([category |-> "Rent"]),
      PyDict([description |-> GasBill]),
      PyDict([description |-> Bangs, category |-> "Rent"]),
      PyDict([description |-> PyNone, category |-> "Rent"]) }

ClassifierTrainingSets ==
    { [items |-> malformed \o ValidItems(n - b, b), vocabulary |-> v] :
        n \in (ClassifierMinSamples - 1)..(ClassifierMinSamples + MaxExtra),
        b \in {0, 1, 3, 5},
        malformed \in { Repeat(item, k) :
                          item \in MalformedItems, k \in 0..MaxInvalid },
        v \in BOOLEAN }

(***************************************************************************)
(* State.                                                                  *)
(***************************************************************************)
VARIABLES
    \* MLService attributes
    model, vectorizer, categories, model_version,
    \* heap: the state of every vectorizer and classifier object
    vecs, mdls,
    \* training calls that passed their checks so far
    ntrain,
    \* files
    disk, catfile,
    \* wall clock, in ticks
    clock,
    \* position of the constructor; "serving" once the service is built
    phase,
    \* train_model calls: position, locals and last outcome of each thread
    tpc, tloc, tres,
    \* the categorize call: position, locals and last outcome
    cpc, cloc, cres,
    \* the /categorize/bulk handler: position, request, loop index, results
    bulk,
    \* an ExpenseClassifier object and the outcome of its last call
    clf, clfres,
    \* the last call of a method that uses no attribute: name, arguments, result
    fn,
    \* MLService.confidence_threshold
    confidence_threshold,
    \* what the process before this one held when it ended
    previous

self_vars == << model, vectorizer, categories, model_version >>
heap_vars == << vecs, mdls, ntrain >>
file_vars == << disk, catfile >>
train_vars == << tpc, tloc, tres >>
cat_vars == << cpc, cloc, cres >>
classifier_vars == << clf, clfres >>
\* the attribute only __init__ assigns, and the process before this one
process_vars == << confidence_threshold, previous >>
\* what no method of MLService changes
other_vars == << bulk, classifier_vars, fn, process_vars >>
vars == << self_vars, heap_vars, file_vars, clock, phase, train_vars, cat_vars,
           other_vars >>

Trainers == {"t1", "t2"}

NoData == TrainingSet(0, 0, FALSE, FALSE, <<>>)

\* what a train_model call saw when it was entered
Snapshot ==
    [model |-> model, vectorizer |-> vectorizer, version |-> model_version,
     disk |-> disk, vecs |-> vecs, mdls |-> mdls]

NoLocals ==
    [data |-> NoData, tid |-> 0, features |-> 0, accuracy |-> 0,
     model_data |-> [model |-> NoneRef, vectorizer |-> NoneRef,
                     version |-> ConfigVersion, categories |-> <<>>],
     saved |-> "no",
     pre |-> [model |-> NoneRef, vectorizer |-> NoneRef,
              version |-> ConfigVersion, disk |-> NoFile,
              vecs |-> [i \in ObjectIds |-> UnfittedVectorizer],
              mdls |-> [i \in ObjectIds |-> UnfittedModel]]]

NoTrainResult ==
    [status |-> "none", error |-> "", version |-> ConfigVersion,
     accuracy |-> 0, samples |-> 0]

NoCatLocals ==
    [description |-> PyNone, merchant |-> PyNone, text |-> <<>>,
     features |-> 0, prediction |-> "", used_model |-> 0, used_vocab |-> 0,
     probabilities |-> <<>>, proba_model |-> 0, proba_vocab |-> 0,
     classes_model |-> 0]

NoCatResult ==
    [status |-> "none", category |-> "", confidence |-> 0,
     suggestions |-> <<>>, via |-> ""]

\* no bulk request is being served
NoBulk == [pc |-> "idle", expenses |-> <<>>, i |-> 0, results |-> <<>>, status |-> 0]

\* no method call to report
NoCall == [op |-> "none", args |-> <<>>, result |-> <<>>]

\* this is the first process: none ended before it
NoPrevious == [restarts |-> 0, bundle |-> NoFile, trained |-> FALSE, saved |-> FALSE]

\* the state MLService.__init__ sets before it loads anything
MLService_init ==
    /\ model = NoneRef
    /\ vectorizer = NoneRef
    /\ categories = DEFAULT_CATEGORIES
    /\ model_version = ConfigVersion
    /\ confidence_threshold = MODEL_CONFIDENCE_THRESHOLD
    /\ vecs = [i \in ObjectIds |-> UnfittedVectorizer]
    /\ mdls = [i \in ObjectIds |-> UnfittedModel]
    /\ ntrain = 0
    /\ disk \in InitialModelFiles
    /\ catfile \in InitialCategoryFiles
    /\ catfile.state \in {"missing", "json"}
    /\ clock = TicksPerSecond
    /\ phase = "load_categories"
    /\ tpc = [t \in Trainers |-> "idle"]
    /\ tloc = [t \in Trainers |-> NoLocals]
    /\ tres = [t \in Trainers |-> NoTrainResult]
    /\ cpc = "idle"
    /\ cloc = NoCatLocals
    /\ cres = NoCatResult

Init ==
    /\ MLService_init
    /\ bulk = NoBulk
    /\ clf = ExpenseClassifier_init(DefaultConfig)
    /\ clfres = NoClassifierResult
    /\ fn = NoCall
    /\ previous = NoPrevious

(***************************************************************************)
(* Construction: MLService.__init__.                                       *)
(***************************************************************************)
\* load_categories, with save_categories when the file is missing; every
\* exception of either is caught
load_categories ==
    /\ phase = "load_categories"
    /\ phase' = "load_model"
    /\ CASE catfile.state = "json" ->
              /\ categories' = catfile.categories
              /\ UNCHANGED catfile
         [] catfile.state = "nokey" ->
              /\ categories' = DEFAULT_CATEGORIES
              /\ UNCHANGED catfile
         [] catfile.state = "corrupt" ->
              /\ categories' = DEFAULT_CATEGORIES
              /\ UNCHANGED catfile
         [] OTHER ->
              \* save_categories: the write succeeds or its error is printed
              /\ \E written \in BOOLEAN :
                    catfile' = IF written
                               THEN [state |-> "json", categories |-> categories]
                               ELSE catfile
              /\ UNCHANGED categories
    /\ UNCHANGED << other_vars, model, vectorizer, model_version, heap_vars, disk, clock,
                    train_vars, cat_vars >>

\* load_model whose handler forgets the reset: a model assigned before the
\* failing statement stays
LoadModelResult_NoReset(file) ==
    LET unchanged == [model |-> model, vectorizer |-> vectorizer,
                      version |-> model_version, loaded |-> FALSE, raised |-> FALSE]
    IN  IF file.state = "bundle" /\ "model" \in file.keys
        THEN IF "vectorizer" \in file.keys
             THEN [model |-> Ref(0), vectorizer |-> Ref(0),
                   version |-> IF "version" \in file.keys THEN file.version
                               ELSE ConfigVersion,
                   loaded |-> TRUE, raised |-> FALSE]
             ELSE [unchanged EXCEPT !.model = Ref(0)]
        ELSE unchanged

\* what load_model leaves in the service, given the model file: the
\* attributes are assigned in the order model, vectorizer, version, and the
\* handler of any exception resets model and vectorizer to None
LoadModelResult(file) ==
    LET unchanged == [model |-> model, vectorizer |-> vectorizer,
                      version |-> model_version, loaded |-> FALSE, raised |-> FALSE]
        reset     == [unchanged EXCEPT !.model = NoneRef, !.vectorizer = NoneRef]
    IN  IF file.state = "missing" THEN unchanged
        ELSE IF file.state # "bundle" THEN reset
        ELSE IF "model" \notin file.keys THEN reset
        ELSE IF "vectorizer" \notin file.keys THEN reset
        ELSE [model |-> Ref(0), vectorizer |-> Ref(0),
              version |-> IF "version" \in file.keys THEN file.version
                          ELSE ConfigVersion,
              loaded |-> TRUE, raised |-> FALSE]

load_model ==
    /\ phase = "load_model"
    /\ LET r == LoadModelResult(disk)
       IN  /\ model' = r.model
           /\ vectorizer' = r.vectorizer
           /\ model_version' = r.version
           /\ phase' = IF r.raised THEN "raised" ELSE "loaded"
           /\ IF r.loaded
              THEN /\ vecs' = [vecs EXCEPT ![0] = disk.vectorizer]
                   /\ mdls' = [mdls EXCEPT ![0] = disk.model]
              ELSE UNCHANGED << vecs, mdls >>
    /\ UNCHANGED << other_vars, categories, ntrain, file_vars, clock, train_vars, cat_vars >>

(***************************************************************************)
(* train_model, one step per statement that reads or writes shared state.  *)
(***************************************************************************)
\* the checks without the count of valid items (line 231)
train_model_checks_NoValidCount(data) ==
    IF data.n < MIN_TRAINING_SAMPLES THEN "Need at least MIN_TRAINING_SAMPLES training samples"
    ELSE IF ~data.stratifiable THEN "stratified split is not possible"
    ELSE "ok"

\* lines 215-237: the size checks, feature construction and the split
train_model_checks(data) ==
    IF data.n < MIN_TRAINING_SAMPLES THEN "Need at least MIN_TRAINING_SAMPLES training samples"
    ELSE IF data.n - data.invalid < MIN_TRAINING_SAMPLES THEN "Not enough valid training samples"
    ELSE IF ~data.stratifiable THEN "stratified split is not possible"
    ELSE "ok"

\* the end of a train_model call of thread t: its outcome is with the caller;
\* train_with_default_data catches an exception and __init__ ends
TrainEnds(t, result) ==
    /\ tpc' = [tpc EXCEPT ![t] = "returned"]
    /\ tres' = [tres EXCEPT ![t] = result]
    /\ phase' = IF phase \in {"loaded", "default_training"} THEN "serving" ELSE phase

TrainError(message) == [NoTrainResult EXCEPT !.status = "error", !.error = message]

\* `raise e` of the handler at lines 271-273
TrainRaises(t, message) == TrainEnds(t, TrainError(message))

\* entering train_model: either a check fails and the call raises, or the
\* call goes on to build its pipeline
TrainModelEnter(t, data) ==
    /\ tpc[t] = "idle"
    /\ LET check == train_model_checks(data)
       IN  IF check # "ok"
           THEN /\ TrainRaises(t, check)
                /\ tloc' = [tloc EXCEPT ![t] = [NoLocals EXCEPT !.data = data,
                                                              !.pre = Snapshot]]
                /\ UNCHANGED ntrain
           ELSE /\ ntrain < MaxObjects
                /\ ntrain' = ntrain + 1
                /\ tpc' = [tpc EXCEPT ![t] = "new_vectorizer"]
                /\ tres' = [tres EXCEPT ![t] = NoTrainResult]
                /\ tloc' = [tloc EXCEPT ![t] = [NoLocals EXCEPT !.data = data,
                                                              !.tid = ntrain + 1,
                                                              !.pre = Snapshot]]
                /\ phase' = IF phase = "loaded" THEN "default_training" ELSE phase
    /\ UNCHANGED << other_vars, self_vars, vecs, mdls, file_vars, clock, cat_vars >>

\* train_model called by a request (app.py, /train)
train_model(t, data) ==
    /\ phase = "serving"
    /\ TrainModelEnter(t, data)

\* train_with_default_data: called by __init__ when load_model left no model
train_with_default_data(file) ==
    /\ phase = "loaded"
    /\ model = NoneRef
    /\ IF file.state = "corrupt"
       THEN \* pd.read_csv raises; the handler prints
            /\ phase' = "serving"
            /\ UNCHANGED << other_vars, self_vars, heap_vars, file_vars, clock, train_vars, cat_vars >>
       ELSE IF file.data.n >= MIN_TRAINING_SAMPLES
       THEN TrainModelEnter("t1", file.data)
       ELSE /\ phase' = "serving"
            /\ UNCHANGED << other_vars, self_vars, heap_vars, file_vars, clock, train_vars, cat_vars >>

\* __init__, line 28: a loaded model skips default training
init_model_loaded ==
    /\ phase = "loaded"
    /\ model # NoneRef
    /\ phase' = "serving"
    /\ UNCHANGED << other_vars, self_vars, heap_vars, file_vars, clock, train_vars, cat_vars >>

\* line 240: self.vectorizer = TfidfVectorizer(...)
train_model_new_vectorizer(t) ==
    /\ tpc[t] = "new_vectorizer"
    /\ vectorizer' = Ref(tloc[t].tid)
    /\ vecs' = [vecs EXCEPT ![tloc[t].tid] = UnfittedVectorizer]
    /\ tpc' = [tpc EXCEPT ![t] = "new_model"]
    /\ UNCHANGED << other_vars, model, categories, model_version, mdls, ntrain, file_vars,
                    clock, phase, tloc, tres, cat_vars >>

\* line 248: self.model = MultinomialNB(alpha=1.0)
train_model_new_model(t) ==
    /\ tpc[t] = "new_model"
    /\ model' = Ref(tloc[t].tid)
    /\ mdls' = [mdls EXCEPT ![tloc[t].tid] = UnfittedModel]
    /\ tpc' = [tpc EXCEPT ![t] = "fit_vectorizer"]
    /\ UNCHANGED << other_vars, vectorizer, categories, model_version, vecs, ntrain,
                    file_vars, clock, phase, tloc, tres, cat_vars >>

\* line 251: X_train_vec = self.vectorizer.fit_transform(X_train); an empty
\* vocabulary raises ValueError and leaves the object unfitted
train_model_fit_vectorizer(t) ==
    /\ tpc[t] = "fit_vectorizer"
    /\ IF tloc[t].data.vocabulary
       THEN /\ vecs' = [vecs EXCEPT ![vectorizer.id] = FittedVectorizer(tloc[t].tid)]
            /\ tloc' = [tloc EXCEPT ![t].features = tloc[t].tid]
            /\ tpc' = [tpc EXCEPT ![t] = "fit_model"]
            /\ UNCHANGED << tres, phase >>
       ELSE /\ TrainRaises(t, "empty vocabulary")
            /\ UNCHANGED << vecs, tloc >>
    /\ UNCHANGED << other_vars, self_vars, mdls, ntrain, file_vars, clock, cat_vars >>

\* line 252: self.model.fit(X_train_vec, y_train)
train_model_fit_model(t) ==
    /\ tpc[t] = "fit_model"
    /\ mdls' = [mdls EXCEPT ![model.id] =
                    FittedModel(tloc[t].features, tloc[t].data.labels)]
    /\ tpc' = [tpc EXCEPT ![t] = "evaluate"]
    /\ UNCHANGED << other_vars, self_vars, vecs, ntrain, file_vars, clock, phase, tloc,
                    tres, cat_vars >>

\* accuracy_score values the evaluation may give, in percent
Accuracies == {50, 100}

\* lines 255-257: transform X_test with self.vectorizer, predict with
\* self.model.  An unfitted object raises; features of another vocabulary
\* raise when the widths differ and give some accuracy when they agree
train_model_evaluate(t) ==
    /\ tpc[t] = "evaluate"
    /\ LET v == vecs[vectorizer.id]
           m == mdls[model.id]
       IN  \/ /\ v.fitted /\ m.fitted
              /\ \E a \in Accuracies :
                    tloc' = [tloc EXCEPT ![t].accuracy = a]
              /\ tpc' = [tpc EXCEPT ![t] = "set_version"]
              /\ UNCHANGED << tres, phase >>
           \/ /\ ~v.fitted \/ ~m.fitted \/ v.by # m.vocab
              /\ TrainRaises(t, "evaluation failed")
              /\ UNCHANGED tloc
    /\ UNCHANGED << other_vars, self_vars, heap_vars, file_vars, clock, cat_vars >>

\* a training that keeps the version it found
train_model_set_version_Kept(t) ==
    /\ tpc[t] = "set_version"
    /\ \E now \in clock..MaxClock : clock' = now
    /\ tpc' = [tpc EXCEPT ![t] = "save_build"]
    /\ UNCHANGED << other_vars, self_vars, heap_vars, file_vars, phase, tloc, tres, cat_vars >>

\* line 260: self.model_version = f"v{datetime.now().strftime(...)}"; the
\* clock has not gone back since it was last read
train_model_set_version(t) ==
    /\ tpc[t] = "set_version"
    /\ \E now \in clock..MaxClock :
          /\ clock' = now
          /\ model_version' = FormatVersion(now)
    /\ tpc' = [tpc EXCEPT ![t] = "save_build"]
    /\ UNCHANGED << other_vars, model, vectorizer, categories, heap_vars, file_vars, phase,
                    tloc, tres, cat_vars >>

(***************************************************************************)
(* save_model, called at line 263; every exception in it is caught and     *)
(* printed (lines 86-87), so the call always returns normally.             *)
(***************************************************************************)
\* lines 74-82: makedirs, then the dict of the attributes as they are now
save_model_build(t) ==
    /\ tpc[t] = "save_build"
    /\ \E ok \in BOOLEAN :
          IF ok
          THEN /\ tloc' = [tloc EXCEPT ![t].model_data =
                              [model |-> model, vectorizer |-> vectorizer,
                               version |-> model_version,
                               categories |-> categories]]
               /\ tpc' = [tpc EXCEPT ![t] = "save_open"]
          ELSE /\ tloc' = [tloc EXCEPT ![t].saved = "failed"]
               /\ tpc' = [tpc EXCEPT ![t] = "return"]
    /\ UNCHANGED << other_vars, self_vars, heap_vars, file_vars, clock, phase, tres, cat_vars >>

\* line 83: open(Config.MODEL_PATH, 'wb') truncates the file, or fails
save_model_open(t) ==
    /\ tpc[t] = "save_open"
    /\ \E ok \in BOOLEAN :
          IF ok
          THEN /\ disk' = PartialFile
               /\ tpc' = [tpc EXCEPT ![t] = "save_dump"]
               /\ UNCHANGED tloc
          ELSE /\ tloc' = [tloc EXCEPT ![t].saved = "failed"]
               /\ tpc' = [tpc EXCEPT ![t] = "return"]
               /\ UNCHANGED disk
    /\ UNCHANGED << other_vars, self_vars, heap_vars, catfile, clock, phase, tres, cat_vars >>

\* line 84: pickle.dump writes the objects as they are now, or fails part-way
save_model_dump(t) ==
    /\ tpc[t] = "save_dump"
    /\ \E ok \in BOOLEAN :
          IF ok
          THEN /\ disk' = BundleFile(AllKeys,
                                     mdls[tloc[t].model_data.model.id],
                                     vecs[tloc[t].model_data.vectorizer.id],
                                     tloc[t].model_data.version)
               /\ tloc' = [tloc EXCEPT ![t].saved = "ok"]
          ELSE /\ disk' = PartialFile
               /\ tloc' = [tloc EXCEPT ![t].saved = "failed"]
    /\ tpc' = [tpc EXCEPT ![t] = "return"]
    /\ UNCHANGED << other_vars, self_vars, heap_vars, catfile, clock, phase, tres, cat_vars >>

\* lines 265-269
train_model_return(t) ==
    /\ tpc[t] = "return"
    /\ TrainEnds(t, [status |-> "ok", error |-> "", version |-> model_version,
                     accuracy |-> tloc[t].accuracy, samples |-> tloc[t].data.n])
    /\ UNCHANGED << other_vars, self_vars, heap_vars, file_vars, clock, tloc, cat_vars >>

\* the caller (the /train handler, or train_with_default_data) has used the
\* outcome: the call's frame is gone
train_model_respond(t) ==
    /\ tpc[t] = "returned"
    /\ tpc' = [tpc EXCEPT ![t] = "idle"]
    /\ tloc' = [tloc EXCEPT ![t] = NoLocals]
    /\ tres' = [tres EXCEPT ![t] = NoTrainResult]
    /\ UNCHANGED << other_vars, self_vars, heap_vars, file_vars, clock, phase, cat_vars >>

get_model_info ==
    [version |-> model_version,
     categories |-> categories,
     confidence_threshold |-> confidence_threshold,
     is_trained |-> model # NoneRef,
     model_type |-> "Multinomial Naive Bayes",
     features |-> "TF-IDF with n-grams"]

\* the list /categories answers with when there is no service (app.py)
default_categories ==
    << "Bills & Utilities", "Entertainment", "Food & Dining", "Healthcare",
       "Shopping", "Transportation", "Travel", "Uncategorized" >>

\* /categories: ml_service is None only when MLService() raised
get_categories ==
    IF phase = "raised" THEN default_categories
    ELSE get_model_info.categories

(***************************************************************************)
(* categorize, one step per statement that reads shared state.             *)
(***************************************************************************)
Reverse(p) == [i \in 1..Len(p) |-> p[Len(p) + 1 - i]]

Pad(p, k) == [i \in 1..k |-> IF i <= Len(p) THEN p[i] ELSE 0]

\* class-probability vectors predict_proba may give for k classes, in percent
ProbShapes == { << 100 >>, << 10, 90 >>, << 50, 50 >>, << 20, 35, 45 >> }

ProbVectors(k) == { Pad(s, k) : s \in { x \in ProbShapes : Len(x) <= k } }

Max(p) == CHOOSE x \in Range(p) : \A y \in Range(p) : y <= x

\* np.argmax: the first index of the maximum
ArgMax(p) == CHOOSE i \in DOMAIN p : p[i] = Max(p) /\ \A j \in 1..(i - 1) : p[j] < p[i]

\* np.argsort: the indices in ascending order of value, equal values in
\* index order
RECURSIVE ArgSortFrom(_, _)
ArgSortFrom(p, left) ==
    IF left = {} THEN <<>>
    ELSE LET i == CHOOSE a \in left :
                    \A b \in left : p[a] < p[b] \/ (p[a] = p[b] /\ a <= b)
         IN  << i >> \o ArgSortFrom(p, left \ {i})

ArgSort(p) == ArgSortFrom(p, DOMAIN p)

\* the three lowest: the reversal forgotten
TopIndices_Ascending(p) == Prefix(ArgSort(p), 3)

\* np.argsort(probabilities)[::-1][:3]
TopIndices(p) == Prefix(Reverse(ArgSort(p)), 3)

RECURSIVE SelectOver(_, _)
SelectOver(idx, p) ==
    IF idx = <<>> THEN <<>>
    ELSE (IF p[Head(idx)] > 10 THEN << Head(idx) >> ELSE <<>>)
         \o SelectOver(Tail(idx), p)

\* the indices of line 143: of the top three, those with probability > 0.1
SuggestionIndices(p) == SelectOver(TopIndices(p), p)

\* what the caller of categorize gets
CatReturn(result) == [result EXCEPT !.status = "ok"]
CatRaised == [NoCatResult EXCEPT !.status = "raised"]

\* the handler at lines 151-153: the fallback, whose exception propagates
CategorizeExcept(description, merchant) ==
    IF fallback_raises(description, merchant)
    THEN CatRaised
    ELSE CatReturn([NoCatResult EXCEPT
                       !.category = fallback_categorization(description, merchant).category,
                       !.confidence = fallback_categorization(description, merchant).confidence,
                       !.via = "fallback"])

CatEnds(result) ==
    /\ cpc' = "returned"
    /\ cres' = result

\* categorize with the empty-text test ahead of the model guard
categorize_EmptyFirst(description, merchant) ==
    /\ phase = "serving"
    /\ cpc = "idle"
    /\ LET text == combine_features(description, merchant)
       IN  /\ cloc' = [NoCatLocals EXCEPT !.description = description,
                                           !.merchant = merchant,
                                           !.text = text]
           /\ IF Strip(text) = <<>>
              THEN CatEnds(CatReturn([NoCatResult EXCEPT !.category = "Other",
                                                         !.confidence = 0,
                                                         !.via = "empty"]))
              ELSE IF model = NoneRef \/ vectorizer = NoneRef
              THEN CatEnds(CategorizeExcept(description, merchant))
              ELSE /\ cpc' = "transform"
                   /\ cres' = NoCatResult
    /\ UNCHANGED << other_vars, self_vars, heap_vars, file_vars, clock, phase, train_vars >>

\* categorize without the empty-text test of lines 128-129
categorize_NoEmptyTest(description, merchant) ==
    /\ phase = "serving"
    /\ cpc = "idle"
    /\ LET text == combine_features(description, merchant)
       IN  /\ cloc' = [NoCatLocals EXCEPT !.description = description,
                                           !.merchant = merchant,
                                           !.text = text]
           /\ IF model = NoneRef \/ vectorizer = NoneRef
              THEN CatEnds(CategorizeExcept(description, merchant))
              ELSE /\ cpc' = "transform"
                   /\ cres' = NoCatResult
    /\ UNCHANGED << other_vars, self_vars, heap_vars, file_vars, clock, phase, train_vars >>

\* lines 121-129: the guard, the feature string, the empty-text result
categorize(description, merchant) ==
    /\ phase = "serving"
    /\ cpc = "idle"
    /\ LET text == combine_features(description, merchant)
       IN  /\ cloc' = [NoCatLocals EXCEPT !.description = description,
                                           !.merchant = merchant,
                                           !.text = text]
           /\ IF model = NoneRef \/ vectorizer = NoneRef
              THEN \* the fallback raises inside the try: the handler runs it again
                   CatEnds(CategorizeExcept(description, merchant))
              ELSE IF Strip(text) = <<>>
              THEN CatEnds(CatReturn([NoCatResult EXCEPT !.category = "Other",
                                                         !.confidence = 0,
                                                         !.via = "empty"]))
              ELSE /\ cpc' = "transform"
                   /\ cres' = NoCatResult
    /\ UNCHANGED << other_vars, self_vars, heap_vars, file_vars, clock, phase, train_vars >>

\* line 132: self.vectorizer.transform([text]); unfitted raises NotFittedError
categorize_transform ==
    /\ cpc = "transform"
    /\ IF vecs[vectorizer.id].fitted
       THEN /\ cloc' = [cloc EXCEPT !.features = vecs[vectorizer.id].by]
            /\ cpc' = "predict"
            /\ UNCHANGED cres
       ELSE /\ CatEnds(CategorizeExcept(cloc.description, cloc.merchant))
            /\ UNCHANGED cloc
    /\ UNCHANGED << other_vars, self_vars, heap_vars, file_vars, clock, phase, train_vars >>

\* what a classifier computes from a feature vector: it raises when it is
\* unfitted, it may raise when the vector is of another vocabulary (the
\* widths differ) and otherwise it has some probability vector over classes_
ModelRaises(m, features) == ~m.fitted
ModelMayRaise(m, features) == m.fitted /\ m.vocab # features

\* line 135: self.model.predict(text_vector)[0]
categorize_predict ==
    /\ cpc = "predict"
    /\ LET m == mdls[model.id]
       IN  \/ /\ m.fitted
              /\ \E p \in ProbVectors(Len(m.classes)) :
                    cloc' = [cloc EXCEPT !.prediction = m.classes[ArgMax(p)],
                                         !.used_model = model.id,
                                         !.used_vocab = m.vocab,
                                         !.probabilities = p]
              /\ cpc' = "predict_proba"
              /\ UNCHANGED cres
           \/ /\ ModelRaises(m, cloc.features) \/ ModelMayRaise(m, cloc.features)
              /\ CatEnds(CategorizeExcept(cloc.description, cloc.merchant))
              /\ UNCHANGED cloc
    /\ UNCHANGED << other_vars, self_vars, heap_vars, file_vars, clock, phase, train_vars >>

\* line 136: self.model.predict_proba(text_vector)[0]; the same fitted
\* classifier gives the probabilities its prediction came from
categorize_predict_proba ==
    /\ cpc = "predict_proba"
    /\ LET m == mdls[model.id]
       IN  \/ /\ m.fitted
              /\ \E p \in ProbVectors(Len(m.classes)) :
                    /\ (model.id = cloc.used_model /\ m.vocab = cloc.used_vocab)
                          => p = cloc.probabilities
                    /\ cloc' = [cloc EXCEPT !.probabilities = p,
                                            !.proba_model = model.id,
                                            !.proba_vocab = m.vocab]
              /\ cpc' = "suggest"
              /\ UNCHANGED cres
           \/ /\ ModelRaises(m, cloc.features) \/ ModelMayRaise(m, cloc.features)
              /\ CatEnds(CategorizeExcept(cloc.description, cloc.merchant))
              /\ UNCHANGED cloc
    /\ UNCHANGED << other_vars, self_vars, heap_vars, file_vars, clock, phase, train_vars >>

\* categorize that hands a confidence below the threshold to the fallback
categorize_return_Thresholded ==
    /\ cpc = "suggest"
    /\ LET m   == mdls[model.id]
           p   == cloc.probabilities
           idx == SuggestionIndices(p)
       IN  IF /\ m.fitted /\ \A k \in DOMAIN idx : idx[k] <= Len(m.classes)
              /\ Max(p) >= confidence_threshold
           THEN /\ cloc' = [cloc EXCEPT !.classes_model = model.id]
                /\ CatEnds(CatReturn([NoCatResult EXCEPT
                    !.category = cloc.prediction,
                    !.confidence = Max(p),
                    !.suggestions = [k \in DOMAIN idx |-> m.classes[idx[k]]],
                    !.via = "model"]))
           ELSE /\ CatEnds(CategorizeExcept(cloc.description, cloc.merchant))
                /\ UNCHANGED cloc
    /\ UNCHANGED << other_vars, self_vars, heap_vars, file_vars, clock, phase, train_vars >>

\* lines 139-149: confidence, the suggestions read from self.model.classes_
\* (an unfitted classifier has no classes_, an index beyond it raises)
categorize_return ==
    /\ cpc = "suggest"
    /\ LET m   == mdls[model.id]
           p   == cloc.probabilities
           idx == SuggestionIndices(p)
       IN  IF m.fitted /\ \A k \in DOMAIN idx : idx[k] <= Len(m.classes)
           THEN /\ cloc' = [cloc EXCEPT !.classes_model = model.id]
                /\ CatEnds(CatReturn([NoCatResult EXCEPT
                    !.category = cloc.prediction,
                    !.confidence = Max(p),
                    !.suggestions = [k \in DOMAIN idx |-> m.classes[idx[k]]],
                    !.via = "model"]))
           ELSE /\ CatEnds(CategorizeExcept(cloc.description, cloc.merchant))
                /\ UNCHANGED cloc
    /\ UNCHANGED << other_vars, self_vars, heap_vars, file_vars, clock, phase, train_vars >>

\* the caller (the /categorize handler) has sent the result
categorize_respond ==
    /\ cpc = "returned"
    /\ cpc' = "idle"
    /\ cloc' = NoCatLocals
    /\ cres' = NoCatResult
    /\ UNCHANGED << other_vars, self_vars, heap_vars, file_vars, clock, phase, train_vars >>

(***************************************************************************)
(* /categorize/bulk (app.py): the loop over the items, one step per item   *)
(* and one per call of categorize.                                         *)
(***************************************************************************)
BulkItems ==
    { PyDict([id |-> PyInt(1), description |-> GasBill]),
      PyDict([id |-> PyInt(2), description |-> MorningCoffee, merchant |-> Shell]),
      PyDict([id |-> PyInt(3), description |-> PyStr(<<>>)]),
      PyDict([id |-> PyInt(4), description |-> PyInt(123)]),
      PyDict([description |-> GasBill]),
      PyDict([id |-> PyInt(6)]),
      PyInt(7),
      PyStr(<< "x" >>) }

\* the request bodies: no JSON, an object without the key, an object whose
\* expenses is no array, and arrays of up to MaxBatch items
BulkRequests ==
    { PyNone, EmptyDict, PyDict([expenses |-> PyInt(1)]) }
    \cup { PyDict([expenses |-> PyList(e)]) : e \in SeqsUpTo(BulkItems, MaxBatch) }

BulkEnds(status, results) ==
    bulk' = [bulk EXCEPT !.pc = "returned", !.status = status, !.results = results]

\* lines 93-107: the checks of the request
bulk_categorize(data) ==
    /\ phase = "serving"
    /\ bulk.pc = "idle"
    /\ cpc = "idle"
    /\ IF ~Truthy(data) \/ ~In("expenses", data)
       THEN bulk' = [NoBulk EXCEPT !.pc = "returned", !.status = 400]
       ELSE IF Item(data, "expenses").type # "list"
       THEN bulk' = [NoBulk EXCEPT !.pc = "returned", !.status = 400]
       ELSE bulk' = [NoBulk EXCEPT !.pc = "loop", !.i = 1,
                                   !.expenses = Item(data, "expenses").items]
    /\ UNCHANGED << self_vars, heap_vars, file_vars, clock, phase, train_vars,
                    cat_vars, classifier_vars, fn, process_vars >>

\* lines 108-110: the next item; the membership test is outside the inner
\* try, so its TypeError ends the request with the handler of line 135; a
\* str item that passes the test raises at expense['description'] and again
\* at expense.get in the inner handler
bulk_item ==
    /\ bulk.pc = "loop"
    /\ bulk.i <= Len(bulk.expenses)
    /\ LET expense == bulk.expenses[bulk.i]
       IN  IF InRaises(expense)
           THEN BulkEnds(500, <<>>)
           ELSE IF ~In("id", expense) \/ ~In("description", expense)
           THEN bulk' = [bulk EXCEPT !.i = bulk.i + 1]
           ELSE IF expense.type # "dict"
           THEN BulkEnds(500, <<>>)
           ELSE bulk' = [bulk EXCEPT !.pc = "call"]
    /\ UNCHANGED << self_vars, heap_vars, file_vars, clock, phase, train_vars,
                    cat_vars, classifier_vars, fn, process_vars >>

\* lines 113-116: ml_service.categorize(expense['description'],
\* expense.get('merchant', ''))
bulk_call ==
    /\ bulk.pc = "call"
    /\ categorize(Item(bulk.expenses[bulk.i], "description"),
                  Get(bulk.expenses[bulk.i], "merchant", PyStr(<<>>)))

BulkResult(expense, result) ==
    IF result.status = "raised"
    THEN [id |-> Item(expense, "id"), category |-> "Uncategorized",
          confidence |-> 0, error |-> "str(e)"]
    ELSE [id |-> Item(expense, "id"), category |-> result.category,
          confidence |-> result.confidence, error |-> ""]

\* lines 118-132: the result of the call, or of its exception, is appended
bulk_append ==
    /\ bulk.pc = "call"
    /\ cpc = "returned"
    /\ bulk' = [bulk EXCEPT
                  !.pc = "loop",
                  !.i = bulk.i + 1,
                  !.results = Append(bulk.results,
                                     BulkResult(bulk.expenses[bulk.i], cres))]
    /\ cpc' = "idle"
    /\ cloc' = NoCatLocals
    /\ cres' = NoCatResult
    /\ UNCHANGED << self_vars, heap_vars, file_vars, clock, phase, train_vars,
                    classifier_vars, fn, process_vars >>

\* line 133: jsonify({'results': results})
bulk_return ==
    /\ bulk.pc = "loop"
    /\ bulk.i > Len(bulk.expenses)
    /\ BulkEnds(200, bulk.results)
    /\ UNCHANGED << self_vars, heap_vars, file_vars, clock, phase, train_vars,
                    cat_vars, classifier_vars, fn, process_vars >>

\* the response is sent
bulk_respond ==
    /\ bulk.pc = "returned"
    /\ bulk' = NoBulk
    /\ UNCHANGED << self_vars, heap_vars, file_vars, clock, phase, train_vars,
                    cat_vars, classifier_vars, fn, process_vars >>

(***************************************************************************)
(* Calls of the methods that use no attribute of the service: the text     *)
(* functions, the fallback and the suggestion list.                        *)
(***************************************************************************)
LongText == PyStr(Repeat("a", MAX_TEXT_LENGTH - 1) \o << " ", "b" >>)

Texts ==
    { PyNone, PyStr(<<>>), GasBill, MorningCoffee, Bangs, PyInt(123), LongText,
      PyStr(<< "a","b"," ","c","d" >>),
      PyStr(<< " ","a"," "," ","B"," " >>),
      PyStr(<< "U","b","e","r","!","R","i","d","e" >>),
      PyStr(<< "v","e","g","a","s" >>),
      PyStr(<< "n","e","t","f","l","i","x" >>),
      PyStr(<< "C","V","S"," ","r","e","n","t" >>) }

MerchantTexts ==
    { PyNone, PyStr(<<>>), Shell, PyInt(7),
      PyStr(<< "P","i","z","z","a"," ","H","u","t","!" >>),
      PyStr(<< "A","m","a","z","o","n" >>) }

\* the configurations of an ExpenseClassifier: none, or a max_text_length
Configs == { DefaultConfig } \cup { ConfigOf(k) : k \in 0..MaxConfigLength }

Call(op, args, result) == [op |-> op, args |-> args, result |-> result]

\* a call changes nothing but what the caller holds
call_frame == << self_vars, heap_vars, file_vars, clock, phase, train_vars,
                 cat_vars, bulk, classifier_vars, process_vars >>

preprocess_text_call(text) ==
    /\ fn.op = "none"
    /\ fn' = Call("preprocess_text", << text >>, preprocess_text(text))
    /\ UNCHANGED call_frame

ExpenseClassifier_preprocess_text_call(config, text) ==
    /\ fn.op = "none"
    /\ fn' = Call("ExpenseClassifier.preprocess_text", << config, text >>,
                ExpenseClassifier_preprocess_text(config, text))
    /\ UNCHANGED call_frame

combine_features_call(description, merchant) ==
    /\ fn.op = "none"
    /\ fn' = Call("combine_features", << description, merchant >>,
                combine_features(description, merchant))
    /\ UNCHANGED call_frame

ExpenseClassifier_combine_features_call(config, description, merchant) ==
    /\ fn.op = "none"
    /\ fn' = Call("ExpenseClassifier.combine_features",
                << config, description, merchant >>,
                ExpenseClassifier_combine_features(config, description, merchant))
    /\ UNCHANGED call_frame

Raised == [status |-> "raised"]

fallback_categorization_call(description, merchant) ==
    /\ fn.op = "none"
    /\ fn' = Call("fallback_categorization", << description, merchant >>,
                IF fallback_raises(description, merchant)
                THEN Raised
                ELSE [status |-> "ok",
                      value |-> fallback_categorization(description, merchant)])
    /\ UNCHANGED call_frame

\* the caller has the result
call_return ==
    /\ fn.op # "none"
    /\ fn' = NoCall
    /\ UNCHANGED call_frame

\* the probability vectors of up to MaxClasses classes, in percent
ProbLevels == { 0, 10, 11, 20, 25, 30, 40, 50, 60, 79, 89, 90, 100 }

RECURSIVE SumSeq(_)
SumSeq(p) == IF p = <<>> THEN 0 ELSE Head(p) + SumSeq(Tail(p))

Probabilities ==
    UNION { { p \in [1..k -> ProbLevels] : SumSeq(p) = 100 } : k \in 1..MaxClasses }

\* lines 139-143 of categorize and 269-277 of ExpenseClassifier.predict:
\* confidence and the indices of the suggestions, from the probabilities
suggestions_call(probabilities) ==
    /\ fn.op = "none"
    /\ fn' = Call("suggestions", << probabilities >>,
                [confidence |-> Max(probabilities),
                 prediction |-> ArgMax(probabilities),
                 suggestions |-> SuggestionIndices(probabilities)])
    /\ UNCHANGED call_frame

\* the training script's prepare_features, for one item
prepare_features(description, merchant) ==
    LET text == description.s \o (IF Truthy(merchant)
                                  THEN << " " >> \o merchant.s ELSE <<>>)
    IN  Strip(Lower(text))

\* the text MLService.train_model builds for an item (lines 222-227)
train_model_text(item) ==
    combine_features(Item(item, "description"), Get(item, "merchant", PyStr(<<>>)))

\* the text ExpenseClassifier.train builds for an item
ExpenseClassifier_train_text(config, item) ==
    LET prepared == prepare_training_data(config, << item >>)
    IN  IF prepared.features = <<>> THEN <<>> ELSE prepared.features[1]

TrainingItem(description, merchant) ==
    PyDict([description |-> description, merchant |-> merchant,
            category |-> "Transportation"])

\* the feature string of one (description, merchant) pair on every path
feature_paths_call(description, merchant) ==
    /\ fn.op = "none"
    /\ fn' = Call("features", << description, merchant >>,
                [categorize |-> combine_features(description, merchant),
                 predict |-> ExpenseClassifier_combine_features(
                                 DefaultConfig, description, merchant),
                 train_model |-> train_model_text(TrainingItem(description, merchant)),
                 train |-> ExpenseClassifier_train_text(
                               DefaultConfig, TrainingItem(description, merchant)),
                 script |-> prepare_features(description, merchant)])
    /\ UNCHANGED call_frame

(***************************************************************************)
(* ExpenseClassifier.train: the whole call, with the statement it raises   *)
(* at decided by the data.                                                 *)
(***************************************************************************)
\* how a call ended: the classifier it left, the exception it raised if
\* any, and the clock it last read
Outcome(c, status, message, now) ==
    [clf |-> c, status |-> status, error |-> message, clock |-> now]

\* lines 175-234: train after prepare_training_data gave features and
\* labels, with the classes LabelEncoder finds in the labels
TrainOnPrepared(c, features, labels, classes, vocabulary, now) ==
    LET tid      == c.ntrain + 1
        \* lines 179-180: the encoder is refitted, categories replaced
        encoded  == [c EXCEPT !.label_encoder = FittedEncoder(classes),
                              !.categories = classes]
        \* lines 188-192: vectorizer and model are refitted
        fitted   == [encoded EXCEPT !.vectorizer = FittedVectorizer(tid),
                                    !.model = FittedModel(tid, classes),
                                    !.ntrain = tid]
    IN  IF Len(features) < ClassifierMinSamples
        THEN { Outcome(c, "raised", "Need at least 10 training samples", now) }
        ELSE IF ~Stratifiable(labels)
        THEN { Outcome(encoded, "raised", "stratified split is not possible", now) }
        ELSE IF ~vocabulary
        THEN { Outcome(encoded, "raised", "empty vocabulary", now) }
        ELSE (IF CrossValMayRaise(labels)
              THEN { Outcome(fitted, "raised",
                             "n_splits greater than the members of each class", now) }
              ELSE {})
             \cup
             { Outcome([fitted EXCEPT
                            !.training_stats =
                                [n_samples |-> Len(features),
                                 n_categories |-> Len(classes),
                                 accuracy |-> accuracy,
                                 incremental_samples |-> 0],
                            !.is_trained = TRUE,
                            !.model_version = FormatVersion(later)],
                       "ok", "", later) :
                  later \in IF CrossValMustRaise(labels) THEN {} ELSE now..MaxClock,
                  accuracy \in Accuracies }

\* lines 160-234: train called on the classifier c when the clock shows now
ExpenseClassifier_train_outcomes(c, training_data, now) ==
    UNION { TrainOnPrepared(c, prepared.features, prepared.labels,
                            LabelEncoderClasses(prepared.labels),
                            training_data.vocabulary, now) :
            prepared \in { prepare_training_data(c.config, training_data.items) } }

\* the outcome of a method of the classifier is with its caller
ClassifierEnds(op, path, training_data, out) ==
    /\ clf' = out.clf
    /\ clock' = out.clock
    /\ clfres' = [op |-> op, path |-> path, status |-> out.status,
                  error |-> out.error, data |-> training_data, pre |-> clf]
    /\ UNCHANGED << self_vars, heap_vars, file_vars, phase, train_vars, cat_vars,
                    bulk, fn, process_vars >>

ExpenseClassifier_train(training_data) ==
    /\ clfres.op = "none"
    /\ clf.ntrain < MaxObjects
    /\ \E out \in ExpenseClassifier_train_outcomes(clf, training_data, clock) :
          ClassifierEnds("train", "train", training_data, out)

\* the caller has the outcome
ExpenseClassifier_train_return ==
    /\ clfres.op # "none"
    /\ clfres' = NoClassifierResult
    /\ UNCHANGED << self_vars, heap_vars, file_vars, clock, phase, train_vars,
                    cat_vars, bulk, clf, fn, process_vars >>

(***************************************************************************)
(* Specifications.                                                         *)
(***************************************************************************)
Construct ==
    \/ load_categories
    \/ load_model
    \/ \E file \in TrainingDataFiles : train_with_default_data(file)
    \/ init_model_loaded

TrainStep(t) ==
    \/ train_model_new_vectorizer(t)
    \/ train_model_new_model(t)
    \/ train_model_fit_vectorizer(t)
    \/ train_model_fit_model(t)
    \/ train_model_evaluate(t)
    \/ train_model_set_version(t)
    \/ save_model_build(t)
    \/ save_model_open(t)
    \/ save_model_dump(t)
    \/ train_model_return(t)
    \/ train_model_respond(t)

CategorizeStep ==
    \/ categorize_transform
    \/ categorize_predict
    \/ categorize_predict_proba
    \/ categorize_return
    \/ categorize_respond

\* no call is in progress
AllIdle == cpc = "idle" /\ \A t \in Trainers : tpc[t] = "idle"

\* one request at a time: every call runs to completion before the next
TrainRequest == \E data \in TrainingSets : AllIdle /\ train_model("t1", data)
CategorizeRequest ==
    \E d \in Descriptions, m \in Merchants : AllIdle /\ categorize(d, m)

Next ==
    \/ Construct
    \/ TrainRequest
    \/ CategorizeRequest
    \/ TrainStep("t1")
    \/ CategorizeStep

Spec == Init /\ [][Next]_vars

\* bulk requests, one at a time, on a service built from no model file or a
\* saved bundle and from no or an unreadable training-data file
BulkInit ==
    /\ Init
    /\ disk \in {NoFile, OldBundle}
    /\ catfile.state = "missing"

BulkConstruct ==
    \/ load_categories
    \/ load_model
    \/ \E file \in { f \in TrainingDataFiles : f.state \in {"missing", "corrupt"} } :
          train_with_default_data(file)
    \/ init_model_loaded

BulkRequest == \E data \in BulkRequests : AllIdle /\ bulk_categorize(data)

BulkStep ==
    \/ bulk_item
    \/ bulk_call
    \/ bulk_append
    \/ bulk_return
    \/ bulk_respond

BulkNext ==
    \/ BulkConstruct
    \/ TrainStep("t1")
    \/ BulkRequest
    \/ BulkStep
    \/ categorize_transform
    \/ categorize_predict
    \/ categorize_predict_proba
    \/ categorize_return

BulkSpec == BulkInit /\ [][BulkNext]_vars

\* calls of the functions with every argument, on a service under construction
StrTexts == { t \in Texts : t.type = "str" }
StrMerchants == { m \in MerchantTexts : m.type = "str" }

FnInit ==
    /\ Init
    /\ disk \in {NoFile, OldBundle}
    /\ catfile.state = "missing"

\* the constructor goes on between two calls
FnConstruct == fn.op = "none" /\ (load_categories \/ load_model)

FnNext ==
    \/ FnConstruct
    \/ \E text \in Texts : preprocess_text_call(text)
    \/ \E config \in Configs, text \in Texts :
          ExpenseClassifier_preprocess_text_call(config, text)
    \/ \E d \in Texts, m \in MerchantTexts : combine_features_call(d, m)
    \/ \E config \in Configs, d \in Texts, m \in MerchantTexts :
          ExpenseClassifier_combine_features_call(config, d, m)
    \/ \E d \in Texts, m \in MerchantTexts : fallback_categorization_call(d, m)
    \/ \E p \in Probabilities : suggestions_call(p)
    \/ \E d \in StrTexts, m \in StrMerchants : feature_paths_call(d, m)
    \/ call_return

FnSpec == FnInit /\ [][FnNext]_vars

\* an ExpenseClassifier of some configuration and its train calls
ClassifierInit ==
    /\ MLService_init
    /\ disk = NoFile
    /\ catfile.state = "missing"
    /\ bulk = NoBulk
    /\ fn = NoCall
    /\ previous = NoPrevious
    /\ clf \in { ExpenseClassifier_init(config) :
                   config \in { DefaultConfig, ConfigOf(0) } }
    /\ clfres = NoClassifierResult

ClassifierNext ==
    \/ \E data \in ClassifierTrainingSets : ExpenseClassifier_train(data)
    \/ ExpenseClassifier_train_return

ClassifierSpec == ClassifierInit /\ [][ClassifierNext]_vars

\* a training request and a categorize request served by two threads
ConcTrainingSets ==
    { TrainingSet(MIN_TRAINING_SAMPLES, 0, TRUE, v, l) :
        v \in BOOLEAN, l \in {LabelsA, LabelsB} }

ConcDescription == PyStr(<< "g","a","s"," ","b","i","l","l" >>)

ConcInit ==
    /\ Init
    /\ disk \in {NoFile, OldBundle}
    /\ catfile.state = "missing"

ConcTrainRequest == \E data \in ConcTrainingSets : train_model("t1", data)
ConcCategorizeRequest == categorize(ConcDescription, PyNone)

ConcNext ==
    \/ Construct
    \/ ConcTrainRequest
    \/ ConcCategorizeRequest
    \/ TrainStep("t1")
    \/ CategorizeStep

ConcSpec == ConcInit /\ [][ConcNext]_vars

(***************************************************************************)
(* Properties.                                                             *)
(***************************************************************************)
\* the service's guard at line 122
ModelLoaded == model # NoneRef /\ vectorizer # NoneRef

TrainReturned(t) == tpc[t] = "returned"
TrainSucceeded(t) == tpc[t] = "returned" /\ tres[t].status = "ok"
TrainFailed(t) == tpc[t] = "returned" /\ tres[t].status = "error"

\* a train_model call is between its entry and its return
Training(t) == tpc[t] \notin {"idle", "returned"}

\* the bundle the in-memory service holds, as save_model would write it
MemoryBundle ==
    BundleFile(AllKeys, mdls[model.id], vecs[vectorizer.id], model_version)

\* C1: categorize returns a result and never raises, for every input and in
\* every service state.
C1_CategorizeNeverRaises ==
    cpc = "returned" => cres.status = "ok"

\* the part of C1 the code keeps: with str or absent inputs categorize
\* never raises
StringInputsNeverRaise ==
    (cpc = "returned" /\ cloc.description.type # "int" /\ cloc.merchant.type # "int")
        => cres.status = "ok"

\* C2: a categorize call never feeds a classifier features of a vectorizer
\* of another training, and takes prediction, probabilities and class names
\* from one classifier.
C2_PairNeverMismatched ==
    /\ cpc \in {"predict_proba", "suggest"} => cloc.used_vocab = cloc.features
    /\ cpc = "suggest" =>
          /\ cloc.proba_vocab = cloc.features
          /\ cloc.proba_model = cloc.used_model
    /\ (cpc = "returned" /\ cres.via = "model") =>
          /\ cloc.used_vocab = cloc.features
          /\ cloc.proba_vocab = cloc.features
          /\ cloc.proba_model = cloc.used_model
          /\ cloc.classes_model = cloc.used_model

\* the pair a train_model call found when it was entered could answer
PreviousBundleUsable(t) ==
    LET pre == tloc[t].pre
    IN  /\ pre.model # NoneRef
        /\ pre.vectorizer # NoneRef
        /\ pre.vecs[pre.vectorizer.id].fitted
        /\ pre.mdls[pre.model.id].fitted
        /\ pre.mdls[pre.model.id].vocab = pre.vecs[pre.vectorizer.id].by

\* C3: a categorize call that returns while train_model is in progress was
\* answered by the pair loaded before the training call, not by the fallback.
C3_AnsweredFromPreviousBundle ==
    (cpc = "returned" /\ Training("t1") /\ PreviousBundleUsable("t1")) =>
        /\ cres.status = "ok"
        /\ cres.via = "model"
        /\ cloc.used_model = tloc["t1"].pre.model.id
        /\ cloc.features = tloc["t1"].pre.vecs[tloc["t1"].pre.vectorizer.id].by

TooFewSamples(data) ==
    \/ data.n < MIN_TRAINING_SAMPLES
    \/ data.n - data.invalid < MIN_TRAINING_SAMPLES

BundleAsBefore(t) ==
    /\ model = tloc[t].pre.model
    /\ vectorizer = tloc[t].pre.vectorizer
    /\ model_version = tloc[t].pre.version
    /\ disk = tloc[t].pre.disk
    /\ vecs = tloc[t].pre.vecs
    /\ mdls = tloc[t].pre.mdls

\* C4: a train_model call with fewer than MIN_TRAINING_SAMPLES items, or
\* fewer valid items, fails and leaves model, vectorizer, version and the
\* model file as they were.
C4_TooFewFailsUnmodified ==
    (TrainReturned("t1") /\ TooFewSamples(tloc["t1"].data)) =>
        /\ tres["t1"].status = "error"
        /\ BundleAsBefore("t1")

C4_Witness ==
    /\ TrainFailed("t1")
    /\ tloc["t1"].data.n >= MIN_TRAINING_SAMPLES
    /\ tloc["t1"].data.n - tloc["t1"].data.invalid < MIN_TRAINING_SAMPLES
    /\ tloc["t1"].pre.model # NoneRef
    /\ tloc["t1"].pre.disk.state = "bundle"

\* C5 as stated: after a successful train_model the service is trained and
\* its version differs from the version before the call.
C5_VersionDiffers ==
    TrainSucceeded("t1") =>
        /\ get_model_info.is_trained
        /\ get_model_info.version # tloc["t1"].pre.version

\* C5 amended: after a successful train_model the service is trained and its
\* version is the tag of the second in which the call set it, so it differs
\* from the version before the call unless that is the tag of the same second.
C5_VersionIsTimestamp ==
    TrainSucceeded("t1") =>
        /\ get_model_info.is_trained
        /\ get_model_info.version = FormatVersion(clock)
        /\ tres["t1"].version = FormatVersion(clock)
        /\ (tloc["t1"].pre.version # FormatVersion(clock)
              => get_model_info.version # tloc["t1"].pre.version)

C5_Witness ==
    /\ TrainSucceeded("t1")
    /\ tloc["t1"].pre.version.tag = "v"
    /\ tloc["t1"].pre.version # model_version
    /\ tloc["t1"].tid = 2

\* C6: train_model returns success only when the model file holds the
\* bundle that is installed in memory.
C6_SuccessMeansPersisted ==
    TrainSucceeded("t1") => disk = MemoryBundle

\* C7: from the start of save_model on, a model path that held a complete
\* bundle holds the complete previous bundle or the complete new one.
C7_SaveNeverCorrupts ==
    (tpc["t1"] \in {"save_build", "save_open", "save_dump", "return", "returned"}
        /\ tloc["t1"].pre.disk.state = "bundle"
        /\ AllKeys \subseteq tloc["t1"].pre.disk.keys) =>
            \/ disk = tloc["t1"].pre.disk
            \/ disk = MemoryBundle

\* a model file load_model cannot use: missing, undeserialisable, or a dict
\* without its model or its vectorizer
FileUnusable(file) ==
    \/ file.state # "bundle"
    \/ "model" \notin file.keys
    \/ "vectorizer" \notin file.keys

\* C8: load_model never raises, and with a missing, undeserialisable or
\* incomplete model file it ends with model and vectorizer both None; it
\* never leaves one set without the other.
C8_LoadFailureLeavesBothAbsent ==
    /\ phase # "raised"
    /\ phase = "loaded" =>
          /\ (model = NoneRef) <=> (vectorizer = NoneRef)
          /\ FileUnusable(disk) => (model = NoneRef /\ vectorizer = NoneRef)

C8_Witness ==
    /\ phase = "loaded"
    /\ disk.state = "bundle"
    /\ "model" \in disk.keys
    /\ "vectorizer" \notin disk.keys
    /\ model = NoneRef

\* C9: a train_model call that fails (at construction or later) in the
\* model-absent state leaves the service model-absent: is_trained is false.
C9_AbsentUntilTrainingSucceeds ==
    (TrainFailed("t1") /\ tloc["t1"].pre.model = NoneRef) =>
        ~get_model_info.is_trained

\* inference on the loaded pair fails: an object is unfitted, or the
\* classifier was fitted on another vocabulary
InferenceFails ==
    \/ ~vecs[vectorizer.id].fitted
    \/ ~mdls[model.id].fitted
    \/ mdls[model.id].vocab # vecs[vectorizer.id].by

SameResult(a, b) ==
    /\ a.category = b.category
    /\ a.confidence = b.confidence
    /\ a.suggestions = b.suggestions

\* the outcome of categorize is the outcome of the fallback classifier
IsFallbackOutcome ==
    IF fallback_raises(cloc.description, cloc.merchant)
    THEN cres.status = "raised"
    ELSE /\ cres.status = "ok"
         /\ cres.via = "fallback"
         /\ SameResult(cres, fallback_categorization(cloc.description, cloc.merchant))

\* the result of categorize is the classifier's prediction for the combined
\* feature string
IsModelPrediction ==
    /\ cres.status = "ok"
    /\ cres.via = "model"
    /\ cloc.text = combine_features(cloc.description, cloc.merchant)
    /\ cloc.features = vecs[vectorizer.id].by
    /\ cloc.used_model = model.id
    /\ cres.category = mdls[model.id].classes[ArgMax(cloc.probabilities)]
    /\ cres.confidence = Max(cloc.probabilities)

\* C10 as stated: model absent, the result is the fallback's; model loaded
\* and no inference failure, the result is the classifier's prediction.
C10_ModelPathIffLoaded ==
    cpc = "returned" =>
        /\ ~ModelLoaded => IsFallbackOutcome
        /\ (ModelLoaded /\ ~InferenceFails) => IsModelPrediction

\* C10 amended: model absent, the outcome is the fallback's; model loaded,
\* no inference failure and a non-empty feature string, the result is the
\* classifier's prediction; model loaded and an empty feature string, the
\* result is "Other" with confidence 0.0 and no suggestions.
C10_ModelPathIffLoadedNonEmpty ==
    cpc = "returned" =>
        /\ ~ModelLoaded => IsFallbackOutcome
        /\ (ModelLoaded /\ ~InferenceFails /\ Strip(cloc.text) # <<>>)
              => IsModelPrediction
        /\ (ModelLoaded /\ Strip(cloc.text) = <<>>) =>
              /\ cres.status = "ok"
              /\ cres.via = "empty"
              /\ cres.category = "Other"
              /\ cres.confidence = 0
              /\ cres.suggestions = <<>>

C10_Witness ==
    /\ cpc = "returned"
    /\ ModelLoaded
    /\ ~InferenceFails
    /\ cres.via = "model"
    /\ cres.category = "Groceries"

(***************************************************************************)
(* C11.  Batch categorization isolates per-item failures: whatever the     *)
(* items of the list are (objects lacking id or description, values that   *)
(* are no object, items whose categorization raises), the request is       *)
(* answered with results and never with an error for the whole batch;      *)
(* every item that has id and description has its result, in input order;  *)
(* and a result that reports an error has category "Uncategorized" and     *)
(* confidence 0.0.                                                         *)
(***************************************************************************)
HasIdAndDescription(expense) ==
    expense.type = "dict" /\ {"id", "description"} \subseteq DOMAIN expense.d

\* the ids of the items that have id and description, in input order
RECURSIVE ExpectedIds(_)
ExpectedIds(expenses) ==
    IF expenses = <<>> THEN <<>>
    ELSE (IF HasIdAndDescription(Head(expenses))
          THEN << Head(expenses).d.id >> ELSE <<>>)
         \o ExpectedIds(Tail(expenses))

BulkAnswered == bulk.pc = "returned" /\ bulk.status # 400

C11_BatchIsolatesFailures ==
    BulkAnswered =>
        /\ bulk.status = 200
        /\ [k \in DOMAIN bulk.results |-> bulk.results[k].id] = ExpectedIds(bulk.expenses)
        /\ \A k \in DOMAIN bulk.results :
              bulk.results[k].error # ""
                  => /\ bulk.results[k].category = "Uncategorized"
                     /\ bulk.results[k].confidence = 0

(***************************************************************************)
(* C12.  Once the service is built, the categories operation returns the   *)
(* distinct labels the loaded model was trained on whenever a model is     *)
(* loaded (also after a train_model call whose labels are not the          *)
(* configured ones), and the fixed list of 8 categories otherwise.         *)
(***************************************************************************)
\* the labels the loaded classifier was fitted on
LiveCategorySet == Range(mdls[model.id].classes)

C12_CategoriesAreLive ==
    phase = "serving" =>
        IF ModelLoaded
        THEN Range(get_categories) = LiveCategorySet
        ELSE get_categories = default_categories

\* the same for a model that a training on other labels installed
C12_AfterTraining ==
    ~ /\ TrainSucceeded("t1")
      /\ ModelLoaded
      /\ mdls[model.id].fitted
      /\ Range(get_categories) # LiveCategorySet

(***************************************************************************)
(* C13.  Every category categorize returns is one of the categories the    *)
(* service reports with get_model_info().categories.                       *)
(***************************************************************************)
C13_CategoryInReportedSet ==
    (cpc = "returned" /\ cres.status = "ok")
        => cres.category \in Range(get_model_info.categories)

(***************************************************************************)
(* C14.  For every probability vector, the suggestions computed from it    *)
(* are at most 3 classes, each with probability above 0.1, in descending   *)
(* order of probability, and no class left out has a higher probability    *)
(* than a listed one.                                                      *)
(***************************************************************************)
C14_SuggestionsTopThree ==
    fn.op = "suggestions" =>
        LET p == fn.args[1]
            listed == fn.result.suggestions
        IN  /\ Len(listed) <= 3
            /\ \A i \in DOMAIN listed : listed[i] \in DOMAIN p /\ p[listed[i]] > 10
            /\ \A i, j \in DOMAIN listed :
                  i < j => listed[i] # listed[j] /\ p[listed[i]] >= p[listed[j]]
            /\ \A c \in DOMAIN p \ Range(listed) :
                  \A i \in DOMAIN listed : p[c] <= p[listed[i]]

\* four classes above 0.1, of which three are listed
C14_Witness ==
    /\ fn.op = "suggestions"
    /\ Len(fn.args[1]) = 4
    /\ \A c \in DOMAIN fn.args[1] : fn.args[1][c] > 10
    /\ \E c \in DOMAIN fn.args[1] : fn.args[1][c] > 25
    /\ Len(fn.result.suggestions) = 3

(***************************************************************************)
(* C15.  The fallback classifier is total and touches no state: for every  *)
(* description and merchant that is a string (also the empty one) or       *)
(* absent, fallback_categorization returns one of its seven categories     *)
(* with confidence 0.7 or 0.3 and no suggestions, it never raises, and     *)
(* the call leaves every attribute, object and file of the service as it   *)
(* was.                                                                    *)
(***************************************************************************)
FallbackCategories ==
    { "Food & Dining", "Transportation", "Shopping", "Entertainment",
      "Bills & Utilities", "Healthcare", "Other" }

StringOrAbsent(v) == v.type \in {"str", "NoneType"}

FallbackCalled == fn.op = "fallback_categorization"

FallbackTotal ==
    (FallbackCalled /\ StringOrAbsent(fn.args[1]) /\ StringOrAbsent(fn.args[2]))
        => /\ fn.result.status = "ok"
           /\ fn.result.value.category \in FallbackCategories
           /\ fn.result.value.confidence \in {30, 70}
           /\ fn.result.value.suggestions = <<>>

FallbackStep == fn.op = "none" /\ fn'.op = "fallback_categorization"

C15_FallbackPureAndTotal ==
    /\ []FallbackTotal
    /\ [][FallbackStep => UNCHANGED << self_vars, heap_vars, file_vars, clock >>]_vars

\* the fallback answered for an absent description
C15_Witness ==
    /\ FallbackCalled
    /\ fn.args[1] = PyNone
    /\ fn.args[2].type = "str"
    /\ fn.result.status = "ok"
    /\ model # NoneRef

(***************************************************************************)
(* C16.  fallback_categorization tests the lower-cased text of description *)
(* and merchant against the keyword lists in the order Food & Dining,      *)
(* Transportation, Shopping, Entertainment, Bills & Utilities, Healthcare  *)
(* and returns the category of the first list that has a keyword in the    *)
(* text, with confidence 0.7 and no suggestions; with no match it returns  *)
(* "Other" with confidence 0.3.                                            *)
(***************************************************************************)
KeywordLists ==
    << [category |-> "Food & Dining", keywords |-> FoodKeywords],
       [category |-> "Transportation", keywords |-> TransportationKeywords],
       [category |-> "Shopping", keywords |-> ShoppingKeywords],
       [category |-> "Entertainment", keywords |-> EntertainmentKeywords],
       [category |-> "Bills & Utilities", keywords |-> BillsKeywords],
       [category |-> "Healthcare", keywords |-> HealthcareKeywords] >>

\* the text the lists are tested against
FallbackText ==
    Lower(fn.args[1].s) \o << " " >> \o Lower(fn.args[2].s)

MatchingLists ==
    { k \in DOMAIN KeywordLists : AnyKeyword(FallbackText, KeywordLists[k].keywords) }

C16_FirstListWins ==
    (FallbackCalled /\ fn.result.status = "ok") =>
        /\ fn.result.value.suggestions = <<>>
        /\ IF MatchingLists = {}
           THEN /\ fn.result.value.category = "Other"
                /\ fn.result.value.confidence = 30
           ELSE /\ \E k \in MatchingLists :
                      /\ \A j \in MatchingLists : k <= j
                      /\ fn.result.value.category = KeywordLists[k].category
                /\ fn.result.value.confidence = 70

\* 'gas' is a keyword of Transportation and of Bills & Utilities
C16_Witness ==
    /\ FallbackCalled
    /\ fn.args[1] = GasBill
    /\ {2, 5} \subseteq MatchingLists
    /\ fn.result.value.category = "Transportation"

(***************************************************************************)
(* C17.  Normalization is idempotent: for every text and every configured  *)
(* maximum length, normalizing the normalized text gives the same text.    *)
(***************************************************************************)
C17_NormalizationIdempotent ==
    /\ fn.op = "preprocess_text"
          => preprocess_text(PyStr(fn.result)) = fn.result
    /\ fn.op = "ExpenseClassifier.preprocess_text"
          => ExpenseClassifier_preprocess_text(fn.args[1], PyStr(fn.result)) = fn.result

(***************************************************************************)
(* C18.  combine_features(d, m) is normalize(d) when normalize(m) is       *)
(* empty, and otherwise normalize(d), a space, normalize(m), a space,      *)
(* normalize(m): its tokens are those of the normalized description once   *)
(* followed by those of the normalized merchant twice.                     *)
(***************************************************************************)
CombinedAsSpecified(result, d, m) ==
    /\ result = IF m = <<>> THEN d
                ELSE d \o << " " >> \o m \o << " " >> \o m
    /\ Split(result) = Split(d) \o Split(m) \o Split(m)

C18_MerchantTwiceDescriptionOnce ==
    /\ fn.op = "combine_features"
          => CombinedAsSpecified(fn.result, preprocess_text(fn.args[1]),
                                 preprocess_text(fn.args[2]))
    /\ fn.op = "ExpenseClassifier.combine_features"
          => CombinedAsSpecified(
                 fn.result,
                 ExpenseClassifier_preprocess_text(fn.args[1], fn.args[2]),
                 ExpenseClassifier_preprocess_text(fn.args[1], fn.args[3]))

\* a description and a merchant that both normalize to some text
C18_Witness ==
    /\ fn.op = "combine_features"
    /\ fn.args[1] = GasBill
    /\ fn.args[2] = Shell
    /\ Len(Split(fn.result)) = 4

(***************************************************************************)
(* C19.  Training and prediction build the same feature string: for every  *)
(* description and merchant, the string MLService.train_model,             *)
(* ExpenseClassifier.train and the training script's prepare_features      *)
(* build for the pair as a training item is the string categorize (and     *)
(* ExpenseClassifier.predict) builds for it.                               *)
(***************************************************************************)
C19_OneFeaturePath ==
    fn.op = "features" =>
        /\ fn.result.train_model = fn.result.categorize
        /\ fn.result.train = fn.result.predict
        /\ fn.result.predict = fn.result.categorize
        /\ fn.result.script = fn.result.categorize

(***************************************************************************)
(* C20.  ExpenseClassifier.train raises its insufficient-data error        *)
(* exactly when fewer than 10 examples remain after the examples without   *)
(* description or category, or with a blank feature string, are dropped;   *)
(* and a train call that fails for this reason leaves the classifier       *)
(* (model, vectorizer, label encoder, categories, is_trained, version,     *)
(* statistics) as it was.                                                  *)
(***************************************************************************)
\* an example that stays: it has both keys and its feature string has text
ValidExample(config, item) ==
    /\ item.type = "dict"
    /\ {"description", "category"} \subseteq DOMAIN item.d
    /\ Split(ExpenseClassifier_combine_features(
                 config, item.d.description,
                 IF "merchant" \in DOMAIN item.d THEN item.d.merchant
                 ELSE PyStr(<<>>))) # <<>>

ValidCount(config, items) ==
    Cardinality({ i \in DOMAIN items : ValidExample(config, items[i]) })

InsufficientData ==
    clfres.status = "raised" /\ clfres.error = "Need at least 10 training samples"

C20_InsufficientIffFewValid ==
    clfres.op = "train" =>
        /\ InsufficientData
              <=> ValidCount(clfres.pre.config, clfres.data.items) < 10
        /\ InsufficientData => clf = clfres.pre

\* a trained classifier refuses 10 items of which 9 are valid, and is as before
C20_Witness ==
    /\ clfres.op = "train"
    /\ InsufficientData
    /\ Len(clfres.data.items) >= 10
    /\ ValidCount(clf.config, clfres.data.items) = 9
    /\ clf.is_trained
    /\ clf = clfres.pre

(***************************************************************************)
(* C21.  Training never fails because a stratified split is impossible:    *)
(* when a label has too few examples for a stratified 80/20 split,         *)
(* MLService.train_model and ExpenseClassifier.train split without         *)
(* stratification and go on, they do not raise.                            *)
(***************************************************************************)
SplitFailed(error) == error = "stratified split is not possible"

C21_NeverFailsOnStratification ==
    /\ TrainReturned("t1") => ~SplitFailed(tres["t1"].error)
    /\ clfres.op = "train" => ~SplitFailed(clfres.error)

(***************************************************************************)
(* C29.  On the model path the returned category heads the suggestions:    *)
(* for every probability vector, also one where classes tie for the        *)
(* maximum, a non-empty suggestion list starts with the returned category, *)
(* and a returned confidence above 0.1 puts the returned category in the   *)
(* suggestions.                                                            *)
(***************************************************************************)
C29_PrimaryPickHeadsSuggestions ==
    fn.op = "suggestions" =>
        LET listed == fn.result.suggestions
        IN  /\ listed # <<>> => listed[1] = fn.result.prediction
            /\ fn.result.confidence > 10 => fn.result.prediction \in Range(listed)

\* the part that holds: without a tie for the maximum the category is first
NoTieHeadsSuggestions ==
    (fn.op = "suggestions"
        /\ Cardinality({ c \in DOMAIN fn.args[1] :
                           fn.args[1][c] = fn.result.confidence }) = 1) =>
        LET listed == fn.result.suggestions
        IN  /\ listed # <<>> => listed[1] = fn.result.prediction
            /\ fn.result.confidence > 10 => fn.result.prediction \in Range(listed)

(***************************************************************************)
(* C30.  Whenever get_model_info().is_trained is true, model and           *)
(* vectorizer are a fitted pair of one training or load; a train_model     *)
(* call that fails after its size checks (at the split, the vectorizer     *)
(* fit or the classifier fit) leaves model, vectorizer and version as they *)
(* were before the call.                                                   *)
(***************************************************************************)
\* the attributes hold a vectorizer and a classifier fitted by one training
FittedPair ==
    /\ model # NoneRef
    /\ vectorizer # NoneRef
    /\ model.id = vectorizer.id
    /\ vecs[vectorizer.id].fitted
    /\ mdls[model.id].fitted
    /\ mdls[model.id].vocab = vecs[vectorizer.id].by

AttributesAsBefore(t) ==
    /\ model = tloc[t].pre.model
    /\ vectorizer = tloc[t].pre.vectorizer
    /\ model_version = tloc[t].pre.version

C30_TrainedMeansFittedPair ==
    /\ (AllIdle /\ phase = "serving" /\ get_model_info.is_trained) => FittedPair
    /\ (TrainFailed("t1") /\ ~TooFewSamples(tloc["t1"].data)) => AttributesAsBefore("t1")

\* the part that holds: a failure at the split changes nothing
SplitFailureChangesNothing ==
    (TrainFailed("t1") /\ SplitFailed(tres["t1"].error)) => BundleAsBefore("t1")

(***************************************************************************)
(* C27.  When description and merchant both normalize to the empty text,   *)
(* categorize never raises and returns "Other" without suggestions and     *)
(* without a call of vectorizer or classifier: with confidence 0.0 through *)
(* the empty-feature path when a model is loaded, and as the fallback's    *)
(* result ("Other", 0.3) when no model is loaded.                          *)
(***************************************************************************)
BothNormalizeToEmpty(description, merchant) ==
    preprocess_text(description) = <<>> /\ preprocess_text(merchant) = <<>>

\* the call never reached vectorizer.transform, predict or predict_proba
NoInference ==
    cloc.features = 0 /\ cloc.prediction = "" /\ cloc.probabilities = <<>>

C27_EmptyTextIsOther ==
    (cpc = "returned" /\ BothNormalizeToEmpty(cloc.description, cloc.merchant)) =>
        /\ cres.status = "ok"
        /\ cres.category = "Other"
        /\ cres.suggestions = <<>>
        /\ NoInference
        /\ IF ModelLoaded
           THEN cres.confidence = 0 /\ cres.via = "empty"
           ELSE cres.confidence = 30 /\ cres.via = "fallback"

\* a service with a loaded pair is asked about "!!" with merchant ""
C27_Witness ==
    /\ cpc = "returned"
    /\ cloc.description = PyStr(<< "!","!" >>)
    /\ cloc.merchant = PyStr(<<>>)
    /\ ModelLoaded
    /\ vecs[vectorizer.id].fitted
    /\ cres.via = "empty"

(***************************************************************************)
(* C22.  Training replaces the CategorySet of an ExpenseClassifier         *)
(* atomically: after any sequence of train calls, categories and the       *)
(* label encoder hold exactly the distinct labels the current fitted model *)
(* was trained on; a successful train replaces them with the labels of its *)
(* training set, and a failed train leaves categories, label encoder,      *)
(* vectorizer and model as they were.                                      *)
(***************************************************************************)
CategorySetOfModel ==
    clf.model.fitted =>
        /\ clf.categories = clf.model.classes
        /\ clf.label_encoder.classes = clf.model.classes

TrainedLabels ==
    LabelEncoderClasses(
        prepare_training_data(clfres.pre.config, clfres.data.items).labels)

C22_CategorySetReplacedAtomically ==
    /\ CategorySetOfModel
    /\ (clfres.op = "train" /\ clfres.status = "ok") =>
          /\ clf.categories = TrainedLabels
          /\ clf.label_encoder.classes = TrainedLabels
          /\ clf.model.classes = TrainedLabels
    /\ (clfres.op = "train" /\ clfres.status = "raised") =>
          /\ clf.categories = clfres.pre.categories
          /\ clf.label_encoder = clfres.pre.label_encoder
          /\ clf.vectorizer = clfres.pre.vectorizer
          /\ clf.model = clfres.pre.model

\* the part that holds: a successful train installs the labels of its data
SuccessReplacesWholesale ==
    (clfres.op = "train" /\ clfres.status = "ok") =>
        /\ clf.categories = TrainedLabels
        /\ clf.label_encoder.classes = TrainedLabels
        /\ clf.model.classes = TrainedLabels

(***************************************************************************)
(* C26.  The confidence threshold is reported and never used: with a       *)
(* model loaded, categorize returns the classifier's top label and its     *)
(* probability also when that probability is below the threshold (0.6); a  *)
(* low confidence never brings in the fallback or another category, and    *)
(* no operation changes the threshold.                                     *)
(***************************************************************************)
\* a categorize call that went through vectorizer and classifier has returned
AnsweredByClassifier ==
    /\ cpc = "returned"
    /\ ModelLoaded
    /\ ~InferenceFails
    /\ Strip(cloc.text) # <<>>

C26_ThresholdNeverUsed ==
    /\ get_model_info.confidence_threshold = MODEL_CONFIDENCE_THRESHOLD
    /\ AnsweredByClassifier =>
          /\ cres.status = "ok"
          /\ cres.via = "model"
          /\ cres.category = mdls[model.id].classes[ArgMax(cloc.probabilities)]
          /\ cres.confidence = Max(cloc.probabilities)

\* the classifier's label is returned with a confidence below the threshold
C26_Witness ==
    /\ AnsweredByClassifier
    /\ cres.via = "model"
    /\ cres.confidence < get_model_info.confidence_threshold
    /\ cres.category = mdls[model.id].classes[ArgMax(cloc.probabilities)]

(***************************************************************************)
(* A restart: the process ends and a new one constructs MLService again    *)
(* (app.py); the files stay, everything in memory is built anew.           *)
(***************************************************************************)
restart ==
    /\ phase = "serving"
    /\ cpc = "idle"
    /\ \A t \in Trainers : tpc[t] \in {"idle", "returned"}
    /\ previous.restarts < MaxRestarts
    /\ previous' = [restarts |-> previous.restarts + 1,
                    bundle |-> IF ModelLoaded THEN MemoryBundle ELSE NoFile,
                    trained |-> TrainSucceeded("t1"),
                    saved |-> TrainSucceeded("t1") /\ tloc["t1"].saved = "ok"]
    /\ model' = NoneRef
    /\ vectorizer' = NoneRef
    /\ categories' = DEFAULT_CATEGORIES
    /\ model_version' = ConfigVersion
    /\ confidence_threshold' = MODEL_CONFIDENCE_THRESHOLD
    /\ vecs' = [i \in ObjectIds |-> UnfittedVectorizer]
    /\ mdls' = [i \in ObjectIds |-> UnfittedModel]
    /\ ntrain' = 0
    /\ phase' = "load_categories"
    /\ tpc' = [t \in Trainers |-> "idle"]
    /\ tloc' = [t \in Trainers |-> NoLocals]
    /\ tres' = [t \in Trainers |-> NoTrainResult]
    /\ UNCHANGED << file_vars, clock, cat_vars, bulk, classifier_vars, fn >>

\* the service with restarts: the process ends when a training request
\* has been answered
RestartInit ==
    /\ Init
    /\ disk \in {NoFile, OldBundle}
    /\ catfile.state = "missing"

RestartTrainRequest ==
    \E data \in ConcTrainingSets : AllIdle /\ train_model("t1", data)

RestartAfterTraining == TrainReturned("t1") /\ restart

RestartNext ==
    \/ Construct
    \/ RestartTrainRequest
    \/ TrainStep("t1")
    \/ RestartAfterTraining

RestartSpec == RestartInit /\ [][RestartNext]_vars

(***************************************************************************)
(* C23.  Round trip across a restart: after a successful train_model, a    *)
(* new service constructed on the same model path starts with a model      *)
(* loaded, holds the model, vectorizer and version the training published, *)
(* and does not run default training.                                      *)
(***************************************************************************)
\* the new process has run load_model and holds what the previous one held
LoadedWhatWasTrained ==
    /\ phase # "default_training"
    /\ phase = "loaded" =>
          /\ ModelLoaded
          /\ MemoryBundle = previous.bundle

C23_RestartRoundTrip ==
    (previous.restarts > 0 /\ previous.trained) => LoadedWhatWasTrained

\* the part that holds: the round trip of a training whose save succeeded
SavedBundleSurvivesRestart ==
    (previous.restarts > 0 /\ previous.saved) => LoadedWhatWasTrained

SavedBundleReloaded ==
    /\ previous.restarts > 0 /\ previous.saved
    /\ phase = "loaded"
    /\ previous.bundle.version.tag = "v"
    /\ MemoryBundle = previous.bundle

(***************************************************************************)
(* Two /train requests served by two threads of one process.               *)
(***************************************************************************)
\* the process found a saved bundle: no default training at construction
RaceInit ==
    /\ Init
    /\ disk = OldBundle
    /\ catfile.state = "missing"

RaceConstruct ==
    \/ load_categories
    \/ load_model
    \/ init_model_loaded

\* the statements of one call, to its return
RaceStep(t) ==
    \/ train_model_new_vectorizer(t)
    \/ train_model_new_model(t)
    \/ train_model_fit_vectorizer(t)
    \/ train_model_fit_model(t)
    \/ train_model_evaluate(t)
    \/ train_model_set_version(t)
    \/ save_model_build(t)
    \/ save_model_open(t)
    \/ save_model_dump(t)
    \/ train_model_return(t)

\* the body of each request: valid training sets that fit, with the labels
\* of the request
RaceData(t) ==
    TrainingSet(MIN_TRAINING_SAMPLES, 0, TRUE, TRUE,
                IF t = "t1" THEN LabelsA ELSE LabelsB)

RaceTrainRequest ==
    \E t \in Trainers : cpc = "idle" /\ train_model(t, RaceData(t))

RaceNext ==
    \/ RaceConstruct
    \/ RaceTrainRequest
    \/ RaceStep("t1")
    \/ RaceStep("t2")

RaceSpec == RaceInit /\ [][RaceNext]_vars

\* both calls have returned their result and neither has raised
BothSucceeded == TrainSucceeded("t1") /\ TrainSucceeded("t2")

\* model and vectorizer were created and fitted by the call t
PairOfCall(m, v, t) ==
    /\ m = FittedModel(tloc[t].tid, tloc[t].data.labels)
    /\ v = FittedVectorizer(tloc[t].tid)

\* C24: after two train_model calls have both finished, the model and the
\* vectorizer in memory are the objects of one call, fitted by that call and
\* to each other, and a readable model file holds the pair of one call (of
\* one of the two, or the one the process found).
C24_LastWriterWins ==
    BothSucceeded =>
        /\ model.id = vectorizer.id
        /\ \E t \in Trainers :
              /\ model.id = tloc[t].tid
              /\ PairOfCall(mdls[model.id], vecs[vectorizer.id], t)
        /\ disk.state = "bundle" =>
              \/ disk = OldBundle
              \/ \E t \in Trainers : PairOfCall(disk.model, disk.vectorizer, t)

\* what the code keeps: the attributes refer to the objects that were
\* assigned last, and each object is fitted by some call
RaceLeavesFittedObjects ==
    BothSucceeded =>
        /\ vecs[vectorizer.id].fitted
        /\ mdls[model.id].fitted
        /\ \E t \in Trainers : vecs[vectorizer.id].by = tloc[t].tid
        /\ \E t \in Trainers : mdls[model.id].vocab = tloc[t].tid

\* the two calls end with a model fitted to the features of one call and a
\* vectorizer holding the vocabulary of the other
RaceMixedPair ==
    /\ BothSucceeded
    /\ mdls[model.id].vocab # vecs[vectorizer.id].by

(***************************************************************************)
(* create_sample_training_data, statement by statement, for a              *)
(* Config.MIN_TRAINING_SAMPLES of any positive value.                      *)
(***************************************************************************)
\* the categories of the literal list of lines 297-339, five items each
SampleCategories ==
    << "Food & Dining", "Transportation", "Shopping", "Entertainment",
       "Bills & Utilities", "Healthcare" >>

\* the literal list: item i of the source, with the keys it has
SampleList ==
    [i \in 1..30 |-> [item |-> i, keys |-> {"description", "merchant", "category"},
                      category |-> SampleCategories[((i - 1) \div 5) + 1]]]

\* sample_data[:k] for a k that is not negative
SliceTo(s, k) == SubSeq(s, 1, IF k < Len(s) THEN k ELSE Len(s))

\* min(20, minimum - len(sample_data)), line 343
ExtendBy(minimum, len) == IF minimum - len < 20 THEN minimum - len ELSE 20

\* lines 297-339: the call builds the list
create_sample_training_data_call(minimum) ==
    /\ fn.op = "none"
    /\ fn' = Call("sample_loop", << minimum >>, SampleList)
    /\ UNCHANGED call_frame

\* an extension that takes twenty items every time
create_sample_training_data_extend_Twenty ==
    /\ fn.op = "sample_loop"
    /\ Len(fn.result) < fn.args[1]
    /\ fn' = [fn EXCEPT !.result = @ \o SliceTo(@, 20)]
    /\ UNCHANGED call_frame

\* lines 342-343: one turn of the while loop
create_sample_training_data_extend ==
    /\ fn.op = "sample_loop"
    /\ Len(fn.result) < fn.args[1]
    /\ fn' = [fn EXCEPT !.result =
                 @ \o SliceTo(@, ExtendBy(fn.args[1], Len(@)))]
    /\ UNCHANGED call_frame

\* line 345, when the loop condition is false
create_sample_training_data_return ==
    /\ fn.op = "sample_loop"
    /\ ~(Len(fn.result) < fn.args[1])
    /\ fn' = [fn EXCEPT !.op = "sample_returned"]
    /\ UNCHANGED call_frame

\* train_with_default_data has the list (line 284)
create_sample_training_data_respond ==
    /\ fn.op = "sample_returned"
    /\ fn' = NoCall
    /\ UNCHANGED call_frame

SampleInit ==
    /\ Init
    /\ disk = NoFile
    /\ catfile.state = "missing"

SampleNext ==
    \/ \E minimum \in 1..MaxMinimum : create_sample_training_data_call(minimum)
    \/ create_sample_training_data_extend
    \/ create_sample_training_data_return
    \/ create_sample_training_data_respond

\* the thread that runs the function goes on running it
SampleSpec ==
    /\ SampleInit
    /\ [][SampleNext]_vars
    /\ WF_vars(create_sample_training_data_extend)
    /\ WF_vars(create_sample_training_data_return)

SampleReturned == fn.op = "sample_returned"

\* the list has exactly max(30, minimum) items, each one of the literal list
ExactSample(minimum, sample_data) ==
    /\ Len(sample_data) = (IF minimum > 30 THEN minimum ELSE 30)
    /\ \A i \in 1..Len(sample_data) :
          /\ sample_data[i] \in Range(SampleList)
          /\ {"description", "merchant", "category"} \subseteq sample_data[i].keys
    \* the test of line 286 passes
    /\ Len(sample_data) >= minimum

\* C28: create_sample_training_data terminates for every positive minimum
\* and returns exactly max(30, minimum) items, each with description,
\* merchant and category, so that the length test of train_with_default_data
\* passes; for the configured minimum this is the set the constructor trains on.
C28_SampleDataMeetsMinimum ==
    /\ [](SampleReturned =>
            /\ ExactSample(fn.args[1], fn.result)
            /\ fn.args[1] = MIN_TRAINING_SAMPLES =>
                  Len(fn.result) = create_sample_training_data.n)
    /\ (fn.op = "sample_loop") ~> SampleReturned

\* a call that went through the loop more than once and took fewer than
\* twenty items the last time
C28_Witness ==
    /\ SampleReturned
    /\ Len(fn.result) > 50
    /\ (Len(fn.result) - 30) % 20 # 0
    /\ fn.result[Len(fn.result)] = SampleList[(Len(fn.result) - 30) % 20]

(***************************************************************************)
(* ExpenseClassifier.retrain_incremental: the whole call.                  *)
(***************************************************************************)
\* the model types _initialize_model accepts
ModelTypes == {"naive_bayes", "random_forest", "logistic_regression"}

\* hasattr(self.model, 'partial_fit'): MultinomialNB has the method,
\* RandomForestClassifier and LogisticRegression do not
HasPartialFit(model_type) == model_type = "naive_bayes"

\* a check that finds no label new
NewLabels_None(c, labels) == {}

\* line 416: set(new_labels) - set(self.categories)
NewLabels(c, labels) == Range(labels) \ Range(c.categories)

\* train called up to `calls` times, again while it raises: once outside the
\* try block (lines 398 and 436); inside it (lines 421 and 431) the handler
\* of line 433 catches train's exception and calls train once more
RECURSIVE TrainCalls(_, _, _, _)
TrainCalls(c, new_data, now, calls) ==
    UNION { IF out.status = "raised" /\ calls > 1
            THEN TrainCalls(out.clf, new_data, out.clock, calls - 1)
            ELSE { out } :
            out \in ExpenseClassifier_train_outcomes(c, new_data, now) }

\* lines 427 and 439-441: the classifier is fitted further on the vectors of
\* the fitted vectorizer; version and two keys of training_stats are assigned
PartialFit(c, new_data, now) ==
    [c EXCEPT !.model_version = FormatVersion(now),
              !.training_stats.incremental_samples = Len(new_data.items)]

\* the branch the call takes; fault: a statement of the try block raises an
\* exception the data does not decide (transform or partial_fit runs out of
\* memory)
RetrainPath(c, labels, fault) ==
    IF ~c.is_trained THEN "untrained"
    ELSE IF Len(labels) < 5 THEN "too_few"
    ELSE IF fault THEN "step_raised"
    ELSE IF NewLabels(c, labels) # {} THEN "new_labels"
    ELSE IF ~HasPartialFit(c.model_type) THEN "no_partial_fit"
    ELSE "partial_fit"

\* what each branch does
RetrainOutcomes(c, new_data, now, path) ==
    IF path = "too_few"
    THEN { Outcome(c, "ok", "", now) }
    ELSE IF path = "partial_fit"
    THEN { Outcome(PartialFit(c, new_data, later), "ok", "", later) :
             later \in now..MaxClock }
    ELSE TrainCalls(c, new_data, now,
                    IF path \in {"new_labels", "no_partial_fit"} THEN 2 ELSE 1)

\* lines 387-443
ExpenseClassifier_retrain_incremental(new_data, fault) ==
    /\ clfres.op = "none"
    /\ clf.ntrain < MaxObjects
    /\ \E labels \in { prepare_training_data(clf.config, new_data.items).labels } :
       \E path \in { RetrainPath(clf, labels, fault) } :
       \E out \in RetrainOutcomes(clf, new_data, clock, path) :
          ClassifierEnds("retrain_incremental", path, new_data, out)

\* a classifier of each model type, its first training and later batches
RetrainInit ==
    /\ MLService_init
    /\ disk = NoFile
    /\ catfile.state = "missing"
    /\ bulk = NoBulk
    /\ fn = NoCall
    /\ previous = NoPrevious
    /\ clf \in { [ExpenseClassifier_init(DefaultConfig) EXCEPT !.model_type = t] :
                   t \in ModelTypes }
    /\ clfres = NoClassifierResult

RetrainTrainingSets ==
    { [items |-> ValidItems(ClassifierMinSamples, b), vocabulary |-> TRUE] :
        b \in {0, 5} }

RetrainBatches ==
    { [items |-> malformed \o ValidItems(a, b), vocabulary |-> TRUE] :
        a \in {4, 5, ClassifierMinSamples}, b \in {0, 5},
        malformed \in { Repeat(PyDict([category |-> "Rent"]), k) :
                          k \in 0..MaxInvalid } }

RetrainNext ==
    \/ \E data \in RetrainTrainingSets : ExpenseClassifier_train(data)
    \/ \E new_data \in RetrainBatches, fault \in BOOLEAN :
          ExpenseClassifier_retrain_incremental(new_data, fault)
    \/ ExpenseClassifier_train_return

RetrainSpec == RetrainInit /\ [][RetrainNext]_vars

Retrained == clfres.op = "retrain_incremental"

\* the labels of the valid examples of the batch the call was given
BatchLabels == prepare_training_data(clfres.pre.config, clfres.data.items).labels

\* the call ended as train(new_data) ends: it raised train's exception, or
\* it left a classifier fitted to the batch alone
FullTrainOnBatch(labels) ==
    \/ /\ clfres.status = "raised"
       /\ clf.is_trained = clfres.pre.is_trained
       /\ clf.model_version = clfres.pre.model_version
    \/ /\ clfres.status = "ok"
       /\ clf.is_trained
       /\ clf.categories = LabelEncoderClasses(labels)
       /\ clf.training_stats.n_samples = Len(labels)
       /\ clf.training_stats.incremental_samples = 0
       /\ clf.vectorizer.fitted /\ clf.vectorizer # clfres.pre.vectorizer
       /\ clf.model = FittedModel(clf.vectorizer.by, clf.categories)
       /\ clf.model_version = FormatVersion(clock)

\* the conditions of an incremental fit, and what it keeps
Eligible(pre, labels) ==
    /\ pre.is_trained
    /\ Len(labels) >= 5
    /\ pre.model_type = "naive_bayes"
    /\ Range(labels) \subseteq Range(pre.categories)

KeptByPartialFit(pre) ==
    /\ clf.vectorizer = pre.vectorizer
    /\ clf.categories = pre.categories
    /\ clf.label_encoder = pre.label_encoder
    /\ clf.model = pre.model

RetrainedInFull ==
    /\ Retrained
    /\ clfres.path = "new_labels"
    /\ clfres.status = "ok"
    /\ clfres.pre.is_trained
    /\ clf.categories # clfres.pre.categories

\* the handler of line 433 caught train's exception and train raised again
RetrainRaisedTwice ==
    /\ Retrained
    /\ clfres.path \in {"new_labels", "no_partial_fit"}
    /\ clfres.status = "raised"

====
